---- MODULE Spec2Model ----
(***************************************************************************)
(* Model of las_processor's corridor pipeline.                             *)
(*                                                                         *)
(*   Spec       process_corridor (src/core/processing.py) driving          *)
(*              process_las_file over the selected files, with a           *)
(*              concurrent setter of the cancel event.                     *)
(*   SpecChunk  the per-chunk filter/downsample step of process_las_file   *)
(*              applied to one chunk drawn from a bounded set.             *)
(*   SpecSelect select_las_files_for_corridor over a list of files whose   *)
(*              headers are drawn from a small integer grid.               *)
(*   SpecCrs    the selector and the pipeline side by side, for the        *)
(*              handling of files without a CRS in both.                   *)
(*   SpecTxt    convert_las_to_txt (src/core/file_operations.py) on a      *)
(*              bounded list of points, with a setter of its event.        *)
(*   SpecGeom   calculate_corridor_polygon (src/core/geometry.py) in       *)
(*              exact arithmetic on segments of whole-number length.       *)
(*   SpecPip    points_in_polygon_chunk (src/core/geometry.py) on convex   *)
(*              polygons and chunks of grid points.                        *)
(*   SpecScene  one input file in the corridor's CRS through polygon,      *)
(*              selection, filter and downsampling.                        *)
(*   SpecGui    the handlers of Application (src/gui/main_window.py) and   *)
(*              the worker threads they launch.                            *)
(*   SpecGuiLive SpecGui with every started worker thread scheduled.       *)
(***************************************************************************)
EXTENDS Integers, Sequences, FiniteSets, TLC

\* ---------------------------------------------------------------- bounds
\* largest number of candidate LAS files found by discovery
MaxFiles == 2
\* largest header.point_count of one input file
MaxPoints == 3
\* points per chunk (chunk_size, 1_000_000 in the source, scaled down)
ChunkSize == 2
\* largest downsampling stride nth_point
MaxStride == 2
\* largest chunk length explored by SpecChunk
MaxChunkLen == 8
\* largest stride explored by SpecChunk
MaxChunkStride == 4

VARIABLES
    pc,                     \* position in process_corridor / process_las_file
    cancel,                 \* cancel_event.is_set()
    nth_point,              \* downsampling stride
    default_las_crs,        \* TRUE iff a default LAS CRS was supplied
    source_option,          \* 1 local, 2 network, 3 download, 4 invalid
    network_dir,            \* TRUE iff network_directory was given
    all_las_files,          \* result of discovery: sequence of file ids
    valid_files,            \* selected files, in order
    outputContent,          \* file at output path: "none", "old", "new"
    dirCreated,             \* output_path.parent.mkdir was called
    sinkState,              \* the LasWriter: "none", "open", "closed"
    openCount,              \* times the writer was opened
    closeCount,             \* times the writer was closed
    sink,                   \* points appended to the writer, in order
    idx,                    \* 1-based index of the file loop
    file_stats,             \* counters of the file being processed
    total_points_processed,
    total_points_written,
    processing_stats,       \* stats of the files that returned statistics
    result,                 \* "none", "True", "False"
    lastError,              \* last pipeline error logged
    cancelObserved,         \* a cancellation poll saw the event set
    escaped,                \* an exception raised outside process_las_file's try reached the handler
    attempted,              \* file-loop indices passed to process_las_file
    outcomes,               \* per attempted file: "ok", "error", "cancelled"
    wroteClosed,            \* a write happened while the writer was not open
    header,                 \* file whose header is the output template, 0 if none
    las_crs,                \* CRS of the file in process_las_file: "unread",
                            \* "none", "present", "default"
    chunkMask,              \* SpecChunk: in-corridor mask of the chunk
    chunkOut,               \* SpecChunk: 0-based raw positions written
    chunkPhase              \* SpecChunk: "idle", "input", "written"

VARIABLES
    selPhase,               \* SpecSelect: "idle", "run", "done"
    selCorridor,            \* corridor polygon, an axis-parallel rectangle
    selDefaultKind,         \* how the default LAS CRS relates to the corridor CRS
    selIdx,                 \* 1-based index of the selection loop
    selected_files,         \* the list being returned
    selChecked,             \* per file checked: its id and whether it raised
    selLast                 \* what the last iteration found and decided

VARIABLES
    txtPc,                  \* SpecTxt: "idle", "scan", "write", "finally", "done"
    cancel_event,           \* the event handed to convert_las_to_txt is set
    txtPoints,              \* the points of the LAS file, in file order
    processed,              \* points read by the scan so far
    points_by_class,        \* classification code -> positions, in scan order
    txtFile,                \* txt_file: "none", "old", "open", "closed"
    txtLines,               \* the lines written to txt_file
    written,                \* lines written so far
    txtResult,              \* "none", "True", "False"
    txtRaised,              \* an exception reached the handler
    txtCancelSeen           \* a poll found the event set

VARIABLES
    geoPhase,               \* SpecGeom: "idle", "input", "built", "stats"
    x_start,
    y_start,
    x_end,
    y_end,
    corridor_half_width,
    corners,                \* the corners, times the length of the direction
    area2                   \* twice the polygon's area, times that length squared

VARIABLES
    pipPhase,               \* SpecPip: "idle", "input", "done"
    pipPolygon,             \* the vertices of a convex polygon, in order
    pipChunk,               \* the points of the chunk, <<x, y>> each
    pipMask                 \* the mask returned

VARIABLES
    scPhase,                \* SpecScene: "idle", "input", "built", "selected", "done"
    scSegment,              \* <<x_start, y_start, x_end, y_end>>
    scHalfWidth,
    scStride,
    scBox,                  \* header min/max of the input file
    scPoints,               \* the points of the input file, [x, y, c] each
    scPolygon,              \* corridor corners, times the segment length
    scSelected,             \* the file is in the selection
    scOutput                \* the points written to the output

VARIABLES
    guiPc,                  \* SpecGui, main thread: "idle", or "launched"
                            \* between thread.start() and cancel_event.clear()
    start_button,           \* "normal", "disabled"
    cancel_button,          \* "normal", "disabled"
    guiEvent,               \* self.cancel_event is set
    close_requested,
    destroyed,              \* the window was destroyed
    launches,               \* worker threads started so far
    wpc,                    \* run -> position of its worker thread
    putCount,               \* run -> PROCESSING_COMPLETE messages it has put
    queue,                  \* PROCESSING_COMPLETE messages waiting in the queue
    consumed,               \* PROCESSING_COMPLETE messages taken by process_queue
    lastFields,             \* the entry fields read by the last start_processing
    lastValid,              \* its outcome: "none", "invalid", "epsg", "launched"
    run_args,               \* the arguments handed to the latest worker
    polygon_call,           \* arguments of the latest calculate_corridor_polygon
    setSinceStart,          \* the event was set after the latest launch
    observedSet             \* the latest worker has read the event as set

vars == <<pc, cancel, nth_point, default_las_crs, source_option, network_dir,
          all_las_files, valid_files, outputContent, dirCreated, sinkState,
          openCount, closeCount, sink, idx, file_stats,
          total_points_processed, total_points_written, processing_stats,
          result, lastError, cancelObserved, escaped, attempted, outcomes,
          wroteClosed, header, las_crs, chunkMask, chunkOut, chunkPhase,
          selPhase, selCorridor, selDefaultKind, selIdx, selected_files,
          selChecked, selLast, txtPc, cancel_event, txtPoints, processed,
          points_by_class, txtFile, txtLines, written, txtResult, txtRaised,
          txtCancelSeen, geoPhase, x_start, y_start, x_end, y_end,
          corridor_half_width, corners, area2, pipPhase, pipPolygon, pipChunk,
          pipMask, scPhase, scSegment, scHalfWidth, scStride, scBox, scPoints,
          scPolygon, scSelected, scOutput, guiPc, start_button, cancel_button,
          guiEvent, close_requested, destroyed, launches, wpc, putCount,
          queue, consumed, lastFields, lastValid, run_args, polygon_call,
          setSinceStart, observedSet>>

chunkVars == <<chunkMask, chunkOut, chunkPhase>>

selVars == <<selPhase, selCorridor, selDefaultKind, selIdx, selected_files,
             selChecked, selLast>>

txtVars == <<txtPc, cancel_event, txtPoints, processed, points_by_class,
             txtFile, txtLines, written, txtResult, txtRaised, txtCancelSeen>>

geomVars == <<geoPhase, x_start, y_start, x_end, y_end, corridor_half_width,
              corners, area2>>

\* all variables of process_corridor and process_las_file
mainVars == <<pc, cancel, nth_point, source_option, network_dir,
              valid_files, outputContent, dirCreated, sinkState,
              openCount, closeCount, sink, idx, file_stats,
              total_points_processed, total_points_written, processing_stats,
              result, lastError, cancelObserved, escaped, attempted, outcomes,
              wroteClosed, header, las_crs>>

inputVars == <<nth_point, default_las_crs, source_option, network_dir,
               all_las_files>>

outVars == <<outputContent, dirCreated, sinkState, openCount, closeCount,
             sink, wroteClosed>>

aggVars == <<total_points_processed, total_points_written, processing_stats>>

loopVars == <<idx, file_stats, attempted, outcomes>>

\* variables of the other specifications, constant while the pipeline runs
pipVars == <<pipPhase, pipPolygon, pipChunk, pipMask>>

sceneVars == <<scPhase, scSegment, scHalfWidth, scStride, scBox, scPoints,
               scPolygon, scSelected, scOutput>>

guiVars == <<guiPc, start_button, cancel_button, guiEvent, close_requested,
             destroyed, launches, wpc, putCount, queue, consumed, lastFields,
             lastValid, run_args, polygon_call, setSinceStart, observedSet>>

\* the variables of SpecPip, SpecScene and SpecGui
extraVars == <<pipVars, sceneVars, guiVars>>

sideVars == <<chunkVars, selVars, txtVars, geomVars, extraVars>>

\* ------------------------------------------------------------ pure helpers
Min(a, b) == IF a < b THEN a ELSE b

CeilDiv(a, b) == (a + b - 1) \div b

RECURSIVE SumSeq(_)
SumSeq(s) == IF s = << >> THEN 0 ELSE Head(s) + SumSeq(Tail(s))

\* np.sum(in_corridor): number of TRUE entries of a mask
NumTrue(mask) == Cardinality({i \in 1..Len(mask) : mask[i]})

\* 1-based raw positions selected by a boolean mask, ascending
MaskIndices(mask) == SelectSeq([i \in 1..Len(mask) |-> i], LAMBDA i : mask[i])

\* point_chunk[in_corridor]
Filtered(points, mask) ==
    [j \in 1..Len(MaskIndices(mask)) |-> points[MaskIndices(mask)[j]]]

\* np.arange(0, len, step): 0-based indices 0, step, 2*step, ... < len
Arange(len, step) == [j \in 1..CeilDiv(len, step) |-> (j - 1) * step]

\* if nth_point > 1: filtered_chunk[np.arange(0, len(filtered_chunk), nth_point)]
Downsample(filtered, n) ==
    IF n > 1
    THEN [j \in 1..Len(Arange(Len(filtered), n)) |->
            filtered[Arange(Len(filtered), n)[j] + 1]]
    ELSE filtered

\* stride applied to the position in the raw chunk instead
ChunkSurvivors_RawStride(points, mask, n) ==
    IF n > 1
    THEN Filtered(points, [i \in 1..Len(mask) |-> mask[i] /\ ((i - 1) % n = 0)])
    ELSE Filtered(points, mask)

\* the points of one chunk handed to writer.write_points
ChunkSurvivors(points, mask, n) == Downsample(Filtered(points, mask), n)

EmptyStats ==
    [file |-> 0, total_points |-> 0, points_processed |-> 0,
     points_within_corridor |-> 0, points_written |-> 0]

\* return total_points_written > 0, on the processed total instead
SuccessValue_Processed(nWritten, nProcessed) ==
    IF nProcessed > 0 THEN "True" ELSE "False"

\* return total_points_written > 0
SuccessValue(nWritten, nProcessed) == IF nWritten > 0 THEN "True" ELSE "False"

\* all order-preserving sub-lists of a list of at most MaxFiles + 1 files
SubSeqs(s) ==
    {SelectSeq(s, LAMBDA f : f \in keep) : keep \in SUBSET {s[i] : i \in 1..Len(s)}}

\* a corridor rectangle that stands for "no selection in progress"
NoRect == [x1 |-> 0, x2 |-> 0, y1 |-> 0, y2 |-> 0]

\* no iteration of the selection loop has run
NoCheck == [file |-> 0, err |-> FALSE, nocrs |-> FALSE, used |-> "none",
            selected |-> FALSE, envHit |-> FALSE, probe |-> FALSE]

\* the selector is not running
SelIdle ==
    /\ selPhase = "idle"
    /\ selCorridor = NoRect
    /\ selDefaultKind = "same"
    /\ selIdx = 1
    /\ selected_files = << >>
    /\ selChecked = << >>
    /\ selLast = NoCheck

\* classification codes of the points of SpecTxt
Classes == 0..1

\* convert_las_to_txt is not running
TxtIdle ==
    /\ txtPc = "idle"
    /\ cancel_event = FALSE
    /\ txtPoints = << >>
    /\ processed = 0
    /\ points_by_class = [c \in Classes |-> << >>]
    /\ txtFile = "none"
    /\ txtLines = << >>
    /\ written = 0
    /\ txtResult = "none"
    /\ txtRaised = FALSE
    /\ txtCancelSeen = FALSE

\* no corridor is being built
GeomIdle ==
    /\ geoPhase = "idle"
    /\ x_start = 0
    /\ y_start = 0
    /\ x_end = 0
    /\ y_end = 0
    /\ corridor_half_width = 0
    /\ corners = << >>
    /\ area2 = 0

\* most worker runs started from the GUI
MaxRuns == 2

Runs == 1..MaxRuns

\* no start_processing has read the entry fields
NoFields == [x_start |-> "", y_start |-> "", x_end |-> "", y_end |-> "",
             half_width |-> "", nth_point |-> ""]

\* no worker was launched, calculate_corridor_polygon was not called
NoArgs == [x_start |-> 0, y_start |-> 0, x_end |-> 0, y_end |-> 0,
           half_width |-> 0, nth_point |-> 0, set |-> FALSE]

\* points_in_polygon_chunk is not running
PipIdle ==
    /\ pipPhase = "idle"
    /\ pipPolygon = << >>
    /\ pipChunk = << >>
    /\ pipMask = << >>

\* the scenario pipeline is not running
SceneIdle ==
    /\ scPhase = "idle"
    /\ scSegment = <<0, 0, 0, 0>>
    /\ scHalfWidth = 0
    /\ scStride = 1
    /\ scBox = NoRect
    /\ scPoints = << >>
    /\ scPolygon = << >>
    /\ scSelected = FALSE
    /\ scOutput = << >>

\* the application window does not exist
GuiIdle ==
    /\ guiPc = "off"
    /\ start_button = "normal"
    /\ cancel_button = "disabled"
    /\ guiEvent = FALSE
    /\ close_requested = FALSE
    /\ destroyed = FALSE
    /\ launches = 0
    /\ wpc = [k \in Runs |-> "none"]
    /\ putCount = [k \in Runs |-> 0]
    /\ queue = 0
    /\ consumed = 0
    /\ lastFields = NoFields
    /\ lastValid = "none"
    /\ run_args = [k \in Runs |-> NoArgs]
    /\ polygon_call = NoArgs
    /\ setSinceStart = FALSE
    /\ observedSet = FALSE

\* SpecPip, SpecScene and SpecGui are not running
ExtraIdle == PipIdle /\ SceneIdle /\ GuiIdle

\* the chunk filter of SpecChunk is not running
ChunkIdle ==
    /\ chunkMask = << >>
    /\ chunkOut = << >>
    /\ chunkPhase = "idle"

\* process_corridor is not running
MainIdle ==
    /\ pc = "idle"
    /\ cancel = FALSE
    /\ nth_point = 1
    /\ source_option = 1
    /\ network_dir = FALSE
    /\ valid_files = << >>
    /\ outputContent = "none"
    /\ dirCreated = FALSE
    /\ sinkState = "none"
    /\ openCount = 0
    /\ closeCount = 0
    /\ sink = << >>
    /\ idx = 1
    /\ file_stats = EmptyStats
    /\ total_points_processed = 0
    /\ total_points_written = 0
    /\ processing_stats = << >>
    /\ result = "none"
    /\ lastError = "none"
    /\ cancelObserved = FALSE
    /\ escaped = FALSE
    /\ attempted = << >>
    /\ outcomes = << >>
    /\ wroteClosed = FALSE
    /\ header = 0
    /\ las_crs = "unread"

\* ------------------------------------------------------------------- Init
Init ==
    /\ pc = "setup"
    /\ cancel \in BOOLEAN
    /\ nth_point \in 1..MaxStride
    /\ default_las_crs \in BOOLEAN
    /\ source_option \in 1..4
    /\ network_dir \in BOOLEAN
    /\ all_las_files \in {[i \in 1..n |-> i] : n \in 0..MaxFiles}
    /\ valid_files = << >>
    /\ outputContent \in {"none", "old"}
    /\ dirCreated = FALSE
    /\ sinkState = "none"
    /\ openCount = 0
    /\ closeCount = 0
    /\ sink = << >>
    /\ idx = 1
    /\ file_stats = EmptyStats
    /\ total_points_processed = 0
    /\ total_points_written = 0
    /\ processing_stats = << >>
    /\ result = "none"
    /\ lastError = "none"
    /\ cancelObserved = FALSE
    /\ escaped = FALSE
    /\ attempted = << >>
    /\ outcomes = << >>
    /\ wroteClosed = FALSE
    /\ header = 0
    /\ las_crs = "unread"
    /\ ChunkIdle
    /\ SelIdle
    /\ TxtIdle
    /\ GeomIdle
    /\ ExtraIdle

\* ----------------------------------------------- process_corridor: set-up
\* `return False` before the writer exists, with the error that was logged
ReturnFalseEarly(reason) ==
    /\ pc' = "done"
    /\ result' = "False"
    /\ lastError' = reason
    /\ UNCHANGED <<cancel, inputVars, outVars, aggVars, loopVars, sideVars, header,
                   las_crs,
                   cancelObserved, escaped>>

\* CRS objects and the corridor polygon are built
Setup ==
    /\ pc = "setup"
    /\ pc' = "discover"
    /\ UNCHANGED <<cancel, inputVars, valid_files, outVars, aggVars, loopVars,
                   sideVars, header,
                   las_crs, result, lastError, cancelObserved, escaped>>

\* CRS.from_epsg or calculate_corridor_polygon raises
SetupRaise ==
    /\ pc = "setup"
    /\ pc' = "handler"
    /\ escaped' = TRUE
    /\ UNCHANGED <<cancel, inputVars, valid_files, outVars, aggVars, loopVars,
                   sideVars, header,
                   las_crs, result, lastError, cancelObserved>>

\* the candidate list is acquired according to source_option
Discover ==
    /\ pc = "discover"
    /\ IF source_option \in {2, 3} /\ ~network_dir
       THEN ReturnFalseEarly("network") /\ UNCHANGED valid_files
       ELSE IF source_option \notin {1, 2, 3}
       THEN ReturnFalseEarly("source_option") /\ UNCHANGED valid_files
       ELSE IF all_las_files = << >>
       THEN ReturnFalseEarly("no_files") /\ UNCHANGED valid_files
       ELSE /\ pc' = "select"
            /\ UNCHANGED <<cancel, inputVars, valid_files, outVars, aggVars,
                           loopVars, sideVars, header,
                   las_crs, result, lastError,
                           cancelObserved, escaped>>

\* the empty selection is logged but the run goes on to prepare the output
Select_NoReturn ==
    /\ pc = "select"
    /\ \E sel \in SubSeqs(all_las_files) :
         /\ valid_files' = sel
         /\ lastError' = IF sel = << >> THEN "no_intersect" ELSE lastError
         /\ pc' = IF source_option = 3 /\ sel # << >> THEN "download"
                  ELSE "prepare"
         /\ UNCHANGED <<cancel, inputVars, outVars, aggVars, loopVars,
                        sideVars, header,
                   las_crs, result, cancelObserved, escaped>>

\* valid_files = select_las_files_for_corridor(...); empty selection fails
Select ==
    /\ pc = "select"
    /\ \E sel \in SubSeqs(all_las_files) :
         /\ valid_files' = sel
         /\ IF sel = << >>
            THEN ReturnFalseEarly("no_intersect")
            ELSE /\ pc' = IF source_option = 3 THEN "download" ELSE "prepare"
                 /\ UNCHANGED <<cancel, inputVars, outVars, aggVars, loopVars,
                                sideVars, header,
                   las_crs, result, lastError, cancelObserved,
                                escaped>>

\* download mode: selected files that do not exist locally afterwards are dropped
Download ==
    /\ pc = "download"
    /\ \E kept \in SubSeqs(valid_files) :
         /\ valid_files' = kept
         /\ IF kept = << >>
            THEN ReturnFalseEarly("no_local")
            ELSE /\ pc' = "prepare"
                 /\ UNCHANGED <<cancel, inputVars, outVars, aggVars, loopVars,
                                sideVars, header,
                   las_crs, result, lastError, cancelObserved,
                                escaped>>

\* the file loop starts after the template file
Prepare_SkipTemplate ==
    /\ pc = "prepare"
    /\ valid_files # << >>
    /\ dirCreated' = TRUE
    /\ header' = valid_files[1]
    /\ pc' = "open"
    /\ idx' = 2
    /\ UNCHANGED <<cancel, inputVars, valid_files, outputContent, sinkState,
                   openCount, closeCount, sink, wroteClosed, aggVars,
                   file_stats, attempted, outcomes, sideVars, las_crs, result,
                   lastError, cancelObserved, escaped>>

\* output directory is created, header is built from valid_files[0]
Prepare ==
    /\ pc = "prepare"
    /\ valid_files # << >>
    /\ dirCreated' = TRUE
    /\ header' = valid_files[1]
    /\ pc' = "open"
    /\ UNCHANGED <<cancel, inputVars, valid_files, outputContent, sinkState,
                   openCount, closeCount, sink, wroteClosed, aggVars, loopVars,
                   sideVars, las_crs, result, lastError, cancelObserved, escaped>>

\* reading the template header raises (or valid_files[0] does not exist)
PrepareRaise ==
    /\ pc = "prepare"
    /\ dirCreated' = TRUE
    /\ pc' = "handler"
    /\ escaped' = TRUE
    /\ UNCHANGED <<cancel, inputVars, valid_files, outputContent, sinkState,
                   openCount, closeCount, sink, wroteClosed, aggVars, loopVars,
                   sideVars, header,
                   las_crs, result, lastError, cancelObserved>>

\* with laspy.open(output_path, mode="w", header=header) as writer
OpenSink ==
    /\ pc = "open"
    /\ sinkState' = "open"
    /\ openCount' = openCount + 1
    /\ outputContent' = "new"
    /\ pc' = "loop"
    /\ UNCHANGED <<cancel, inputVars, valid_files, dirCreated, closeCount,
                   sink, wroteClosed, aggVars, loopVars, sideVars, header,
                   las_crs, result,
                   lastError, cancelObserved, escaped>>

\* ------------------------------------------------ process_corridor: file loop
\* the for loop is exhausted: the with block is left
LoopExit ==
    /\ pc = "loop"
    /\ idx > Len(valid_files)
    /\ pc' = "closing"
    /\ UNCHANGED <<cancel, inputVars, valid_files, outVars, aggVars, loopVars,
                   sideVars, header,
                   las_crs, result, lastError, cancelObserved, escaped>>

\* if cancel_event and cancel_event.is_set(): break
LoopCancel ==
    /\ pc = "loop"
    /\ idx <= Len(valid_files)
    /\ cancel
    /\ cancelObserved' = TRUE
    /\ pc' = "closing"
    /\ UNCHANGED <<cancel, inputVars, valid_files, outVars, aggVars, loopVars,
                   sideVars, header,
                   las_crs, result, lastError, escaped>>

\* stats = process_las_file(file_path, ...)
LoopCall ==
    /\ pc = "loop"
    /\ idx <= Len(valid_files)
    /\ ~cancel
    /\ attempted' = Append(attempted, idx)
    /\ las_crs' \in {"none", "present"}
    /\ pc' = "file_open"
    /\ UNCHANGED <<cancel, inputVars, valid_files, outVars, aggVars, idx,
                   file_stats, outcomes, sideVars, header, result, lastError,
                   cancelObserved, escaped>>

\* an exception inside the with block leaves the writer open
LoopRaise_NoClose ==
    /\ pc = "loop"
    /\ idx <= Len(valid_files)
    /\ pc' = "handler"
    /\ escaped' = TRUE
    /\ UNCHANGED <<cancel, inputVars, valid_files, outVars, aggVars, loopVars,
                   sideVars, header,
                   las_crs, result, lastError, cancelObserved>>

\* an exception raised in the loop body outside process_las_file's own try:
\* the with block closes the writer, then the top-level handler runs
LoopRaise ==
    /\ pc = "loop"
    /\ idx <= Len(valid_files)
    /\ sinkState' = "closed"
    /\ closeCount' = closeCount + 1
    /\ pc' = "handler"
    /\ escaped' = TRUE
    /\ UNCHANGED <<cancel, inputVars, valid_files, outputContent, dirCreated,
                   openCount, sink, wroteClosed, aggVars, loopVars, sideVars, header,
                   las_crs,
                   result, lastError, cancelObserved>>

\* writer.close() at the end of the with block
CloseSink ==
    /\ pc = "closing"
    /\ sinkState' = "closed"
    /\ closeCount' = closeCount + 1
    /\ pc' = "summary"
    /\ UNCHANGED <<cancel, inputVars, valid_files, outputContent, dirCreated,
                   openCount, sink, wroteClosed, aggVars, loopVars, sideVars, header,
                   las_crs,
                   result, lastError, cancelObserved, escaped>>

\* writer.close() raises while flushing
CloseRaise ==
    /\ pc = "closing"
    /\ sinkState' = "closed"
    /\ closeCount' = closeCount + 1
    /\ pc' = "handler"
    /\ escaped' = TRUE
    /\ UNCHANGED <<cancel, inputVars, valid_files, outputContent, dirCreated,
                   openCount, sink, wroteClosed, aggVars, loopVars, sideVars, header,
                   las_crs,
                   result, lastError, cancelObserved>>

\* return total_points_written > 0
Summary ==
    /\ pc = "summary"
    /\ result' = SuccessValue(total_points_written, total_points_processed)
    /\ pc' = "done"
    /\ UNCHANGED <<cancel, inputVars, valid_files, outVars, aggVars, loopVars,
                   sideVars, header,
                   las_crs, lastError, cancelObserved, escaped>>

\* the handler returns False and leaves the output file in place
Handler_NoUnlink ==
    /\ pc = "handler"
    /\ result' = "False"
    /\ pc' = "done"
    /\ UNCHANGED <<cancel, inputVars, valid_files, outVars, aggVars, loopVars,
                   sideVars, header,
                   las_crs, lastError, cancelObserved, escaped>>

\* except Exception: unlink the output path if it exists; return False
Handler ==
    /\ pc = "handler"
    /\ outputContent' = "none"
    /\ result' = "False"
    /\ pc' = "done"
    /\ UNCHANGED <<cancel, inputVars, valid_files, dirCreated, sinkState,
                   openCount, closeCount, sink, wroteClosed, aggVars, loopVars,
                   sideVars, header,
                   las_crs, lastError, cancelObserved, escaped>>

\* --------------------------------------------------------- process_las_file
\* process_las_file returns None; the orchestrator skips to the next file
ReturnNone(outcome) ==
    /\ pc' = "loop"
    /\ idx' = idx + 1
    /\ outcomes' = Append(outcomes, outcome)
    /\ file_stats' = EmptyStats
    /\ las_crs' = "unread"
    /\ UNCHANGED <<cancel, inputVars, valid_files, outVars, aggVars, attempted,
                   sideVars, header, result, lastError, escaped>>

\* the per-file error ends the file loop instead of skipping the file
FileError_Break ==
    /\ pc \in {"file_open", "chunk", "chunk_body"}
    /\ pc' = "closing"
    /\ outcomes' = Append(outcomes, "error")
    /\ file_stats' = EmptyStats
    /\ las_crs' = "unread"
    /\ UNCHANGED <<cancel, inputVars, valid_files, outVars, aggVars, attempted,
                   idx, sideVars, header, result, lastError, escaped, cancelObserved>>

\* an I/O or transform error inside process_las_file's try block, while the
\* file is opened or while a chunk is read, filtered or reprojected
FileError ==
    /\ \/ pc = "file_open"
       \/ pc = "chunk" /\ file_stats.points_processed < file_stats.total_points
       \/ pc = "chunk_body"
    /\ ReturnNone("error")
    /\ UNCHANGED cancelObserved

\* a file without CRS is read as if it were in the corridor CRS
FileNoCrs_Proceed ==
    /\ pc = "file_open"
    /\ las_crs = "none"
    /\ ~default_las_crs
    /\ \E t \in 0..MaxPoints :
         file_stats' = [file |-> valid_files[idx], total_points |-> t,
                        points_processed |-> 0, points_within_corridor |-> 0,
                        points_written |-> 0]
    /\ pc' = "chunk"
    /\ UNCHANGED <<cancel, inputVars, valid_files, outVars, aggVars, idx,
                   attempted, outcomes, sideVars, header, las_crs, result,
                   lastError, cancelObserved, escaped>>

\* the file has no CRS and no default was supplied: return None
FileNoCrs ==
    /\ pc = "file_open"
    /\ las_crs = "none"
    /\ ~default_las_crs
    /\ ReturnNone("no_crs")
    /\ UNCHANGED cancelObserved

\* the file is opened, its CRS resolved, header.point_count read
FileOpen ==
    /\ pc = "file_open"
    /\ las_crs = "present" \/ default_las_crs
    /\ las_crs' = IF las_crs = "none" THEN "default" ELSE las_crs
    /\ \E t \in 0..MaxPoints :
         file_stats' = [file |-> valid_files[idx], total_points |-> t,
                        points_processed |-> 0, points_within_corridor |-> 0,
                        points_written |-> 0]
    /\ pc' = "chunk"
    /\ UNCHANGED <<cancel, inputVars, valid_files, outVars, aggVars, idx,
                   attempted, outcomes, sideVars, header, result, lastError,
                   cancelObserved, escaped>>

\* cancellation polled at the top of a chunk: return None
ChunkCancel ==
    /\ pc = "chunk"
    /\ file_stats.points_processed < file_stats.total_points
    /\ cancel
    /\ cancelObserved' = TRUE
    /\ ReturnNone("cancelled")

\* the chunk loop does not poll the cancel event
ChunkPoll_NoPoll ==
    /\ pc = "chunk"
    /\ file_stats.points_processed < file_stats.total_points
    /\ pc' = "chunk_body"
    /\ UNCHANGED <<cancel, inputVars, valid_files, outVars, aggVars, loopVars,
                   sideVars, header, las_crs, result, lastError,
                   cancelObserved, escaped>>

\* the chunk iterator yields a chunk and the cancellation poll passes
ChunkPoll ==
    /\ pc = "chunk"
    /\ file_stats.points_processed < file_stats.total_points
    /\ ~cancel
    /\ pc' = "chunk_body"
    /\ UNCHANGED <<cancel, inputVars, valid_files, outVars, aggVars, loopVars,
                   sideVars, header, las_crs, result, lastError,
                   cancelObserved, escaped>>

\* the chunk's points are put in front of the points already written
ProcessChunk_Prepend ==
    /\ pc = "chunk_body"
    /\ pc' = "chunk"
    /\ LET done == file_stats.points_processed
           len == Min(ChunkSize, file_stats.total_points - done)
           points == [i \in 1..len |-> <<file_stats.file, done + i>>]
       IN \E in_corridor \in [1..len -> BOOLEAN] :
            LET num_points_corridor == NumTrue(in_corridor)
                filtered_chunk ==
                    IF num_points_corridor > 0
                    THEN ChunkSurvivors(points, in_corridor, nth_point)
                    ELSE << >>
            IN /\ file_stats' =
                    [file_stats EXCEPT
                       !.points_processed = @ + len,
                       !.points_within_corridor = @ + num_points_corridor,
                       !.points_written = @ + Len(filtered_chunk)]
               /\ sink' = filtered_chunk \o sink
               /\ wroteClosed' = (wroteClosed \/
                                  (filtered_chunk # << >> /\ sinkState # "open"))
    /\ UNCHANGED <<cancel, inputVars, valid_files, outputContent,
                   dirCreated, sinkState, openCount, closeCount, aggVars, idx,
                   attempted, outcomes, sideVars, header,
                   las_crs, result, lastError,
                   cancelObserved, escaped>>

\* points_written counts every point of the chunk
ProcessChunk_CountRaw ==
    /\ pc = "chunk_body"
    /\ pc' = "chunk"
    /\ LET done == file_stats.points_processed
           len == Min(ChunkSize, file_stats.total_points - done)
           points == [i \in 1..len |-> <<file_stats.file, done + i>>]
       IN \E in_corridor \in [1..len -> BOOLEAN] :
            LET num_points_corridor == NumTrue(in_corridor)
                filtered_chunk ==
                    IF num_points_corridor > 0
                    THEN ChunkSurvivors(points, in_corridor, nth_point)
                    ELSE << >>
            IN /\ file_stats' =
                    [file_stats EXCEPT
                       !.points_processed = @ + len,
                       !.points_within_corridor = @ + num_points_corridor,
                       !.points_written = @ + len]
               /\ sink' = sink \o filtered_chunk
               /\ wroteClosed' = (wroteClosed \/
                                  (filtered_chunk # << >> /\ sinkState # "open"))
    /\ UNCHANGED <<cancel, inputVars, valid_files, outputContent,
                   dirCreated, sinkState, openCount, closeCount, aggVars, idx,
                   attempted, outcomes, sideVars, header,
                   las_crs, result, lastError,
                   cancelObserved, escaped>>

\* the body of one chunk after the poll: mask, counters, downsampling, write
\* to the shared writer
ProcessChunk ==
    /\ pc = "chunk_body"
    /\ pc' = "chunk"
    /\ LET done == file_stats.points_processed
           len == Min(ChunkSize, file_stats.total_points - done)
           points == [i \in 1..len |-> <<file_stats.file, done + i>>]
       IN \E in_corridor \in [1..len -> BOOLEAN] :
            LET num_points_corridor == NumTrue(in_corridor)
                filtered_chunk ==
                    IF num_points_corridor > 0
                    THEN ChunkSurvivors(points, in_corridor, nth_point)
                    ELSE << >>
            IN /\ file_stats' =
                    [file_stats EXCEPT
                       !.points_processed = @ + len,
                       !.points_within_corridor = @ + num_points_corridor,
                       !.points_written = @ + Len(filtered_chunk)]
               /\ sink' = sink \o filtered_chunk
               /\ wroteClosed' = (wroteClosed \/
                                  (filtered_chunk # << >> /\ sinkState # "open"))
    /\ UNCHANGED <<cancel, inputVars, valid_files, outputContent,
                   dirCreated, sinkState, openCount, closeCount, aggVars, idx,
                   attempted, outcomes, sideVars, header,
                   las_crs, result, lastError,
                   cancelObserved, escaped>>

\* the chunk iterator is exhausted: return file_stats; the orchestrator
\* adds them to its totals
FileComplete ==
    /\ pc = "chunk"
    /\ file_stats.points_processed >= file_stats.total_points
    /\ total_points_processed' = total_points_processed
                                   + file_stats.points_processed
    /\ total_points_written' = total_points_written + file_stats.points_written
    /\ processing_stats' = Append(processing_stats, file_stats)
    /\ outcomes' = Append(outcomes, "ok")
    /\ file_stats' = EmptyStats
    /\ las_crs' = "unread"
    /\ idx' = idx + 1
    /\ pc' = "loop"
    /\ UNCHANGED <<cancel, inputVars, valid_files, outVars, attempted,
                   sideVars, header, result, lastError, cancelObserved, escaped>>

\* ------------------------------------------------------------- environment
\* cancel_event.set() by another thread while the run is in progress
Cancel ==
    /\ pc \notin {"done", "idle"}
    /\ ~cancel
    /\ cancel' = TRUE
    /\ UNCHANGED <<pc, inputVars, valid_files, outVars, aggVars, loopVars,
                   sideVars, header,
                   las_crs, result, lastError, cancelObserved, escaped>>

Next ==
    \/ Setup
    \/ SetupRaise
    \/ Discover
    \/ Select
    \/ Download
    \/ Prepare
    \/ PrepareRaise
    \/ OpenSink
    \/ LoopExit
    \/ LoopCancel
    \/ LoopCall
    \/ LoopRaise
    \/ CloseSink
    \/ CloseRaise
    \/ Summary
    \/ Handler
    \/ FileError
    \/ FileNoCrs
    \/ FileOpen
    \/ ChunkCancel
    \/ ChunkPoll
    \/ ProcessChunk
    \/ FileComplete
    \/ Cancel

Spec == Init /\ [][Next]_vars

\* ------------------------------------------- SpecChunk: one chunk, one stride
\* all boolean masks of length 1..n
Masks(n) == UNION {[1..k -> BOOLEAN] : k \in 1..n}

InitChunk ==
    /\ pc = "idle"
    /\ cancel = FALSE
    /\ nth_point \in 1..MaxChunkStride
    /\ default_las_crs = FALSE
    /\ source_option = 1
    /\ network_dir = FALSE
    /\ all_las_files = << >>
    /\ valid_files = << >>
    /\ outputContent = "none"
    /\ dirCreated = FALSE
    /\ sinkState = "none"
    /\ openCount = 0
    /\ closeCount = 0
    /\ sink = << >>
    /\ idx = 1
    /\ file_stats = EmptyStats
    /\ total_points_processed = 0
    /\ total_points_written = 0
    /\ processing_stats = << >>
    /\ result = "none"
    /\ lastError = "none"
    /\ cancelObserved = FALSE
    /\ escaped = FALSE
    /\ attempted = << >>
    /\ outcomes = << >>
    /\ wroteClosed = FALSE
    /\ header = 0
    /\ las_crs = "unread"
    /\ chunkMask \in Masks(MaxChunkLen)
    /\ chunkOut = << >>
    /\ chunkPhase = "input"
    /\ SelIdle
    /\ TxtIdle
    /\ GeomIdle
    /\ ExtraIdle

\* the body of the chunk loop on one chunk whose points are named by their
\* 0-based position in the raw chunk
FilterChunk ==
    /\ chunkPhase = "input"
    /\ LET points == [i \in 1..Len(chunkMask) |-> i - 1]
       IN chunkOut' = IF NumTrue(chunkMask) > 0
                      THEN ChunkSurvivors(points, chunkMask, nth_point)
                      ELSE << >>
    /\ chunkPhase' = "written"
    /\ UNCHANGED <<pc, cancel, inputVars, valid_files, outVars, aggVars,
                   loopVars, chunkMask, result, lastError, cancelObserved,
                   escaped, header, las_crs, selVars, txtVars, geomVars,
                   extraVars>>

NextChunk == FilterChunk

SpecChunk == InitChunk /\ [][NextChunk]_vars

\* ================================================================= claims
\* points_written of the files that returned statistics
WrittenOfStats == [j \in 1..Len(processing_stats) |->
                     processing_stats[j].points_written]

\* C1: if the cancel event is set before any selected file is processed,
\* process_corridor returns False, no point is written and no file exists at
\* the output path when it returns.
C1_CancelBeforeFirstFile ==
    (pc = "done" /\ cancelObserved /\ attempted = << >>)
        => (result = "False" /\ sink = << >> /\ outputContent = "none")

\* C2: every run in which a cancellation poll saw the event set returns
\* False, whatever earlier files contributed.
C2_CancelledRunFails ==
    (pc = "done" /\ cancelObserved) => result = "False"

\* C3: a run that completes without exception and without cancellation
\* returns True iff the points written summed over the per-file statistics
\* are at least one; with zero it returns False.
C3_SuccessIffPointsWritten ==
    (pc = "done" /\ ~escaped /\ ~cancelObserved)
        => /\ result \in {"True", "False"}
           /\ (result = "True") <=> (SumSeq(WrittenOfStats) >= 1)

C3_Witness ==
    /\ pc = "done" /\ ~escaped /\ ~cancelObserved
    /\ Len(processing_stats) = 2
    /\ SumSeq(WrittenOfStats) >= 1
    /\ result = "True"

\* C4: when the file selector returns the empty list, process_corridor
\* returns False and neither the output directory nor the output file is
\* created and no writer is opened.
C4_NoIntersectNoOutput ==
    (pc = "done" /\ lastError = "no_intersect")
        => /\ result = "False"
           /\ ~dirCreated
           /\ openCount = 0
           /\ sinkState = "none"
           /\ outputContent # "new"

C4_Witness ==
    /\ pc = "done" /\ lastError = "no_intersect"
    /\ Len(all_las_files) = 2 /\ valid_files = << >>
    /\ result = "False"

\* C5: if process_las_file returns no statistics for every selected file
\* because each fails, the run fails and no file remains at the output path.
C5_AllFilesFailRemovesOutput ==
    (/\ pc = "done"
     /\ valid_files # << >>
     /\ Len(outcomes) = Len(valid_files)
     /\ \A i \in 1..Len(outcomes) : outcomes[i] = "error")
        => (result = "False" /\ outputContent = "none")

\* C6: an exception that reaches the top-level handler after the writer was
\* opened deletes the output file, and process_corridor returns False.
C6_ErrorDeletesOutput ==
    (pc = "done" /\ escaped /\ openCount >= 1)
        => (result = "False" /\ outputContent = "none")

C6_Witness ==
    /\ pc = "done" /\ escaped /\ openCount = 1
    /\ sink # << >>
    /\ outputContent = "none"

\* C7: an error inside process_las_file aborts that file only: it never takes
\* control to the top-level handler, the file contributes no statistics, and
\* in a run without cancellation or top-level exception every selected file
\* is passed to process_las_file, in order.
C7_FileErrorSkipsFile ==
    /\ pc = "handler" => escaped
    /\ \A i \in 1..Len(outcomes) :
         outcomes[i] = "error" =>
           \A j \in 1..Len(processing_stats) :
             processing_stats[j].file # valid_files[attempted[i]]
    /\ (pc = "done" /\ openCount >= 1 /\ ~escaped /\ ~cancelObserved)
         => /\ attempted = [i \in 1..Len(valid_files) |-> i]
            /\ Len(outcomes) = Len(valid_files)

C7_Witness ==
    /\ pc = "done" /\ ~escaped /\ ~cancelObserved
    /\ outcomes = <<"error", "ok">>
    /\ attempted = <<1, 2>>
    /\ sink # << >>

\* C8: the writer is opened at most once, closed exactly once by the time
\* process_corridor returns if it was opened, and nothing is written to it
\* unless it is open.
C8_SinkOpenedAndClosedOnce ==
    /\ openCount <= 1
    /\ closeCount <= openCount
    /\ (sinkState = "open") <=> (openCount = 1 /\ closeCount = 0)
    /\ pc = "done" => closeCount = openCount
    /\ ~wroteClosed

C8_Witness ==
    /\ pc = "done" /\ openCount = 1 /\ closeCount = 1
    /\ ~escaped
    /\ \E i \in 1..Len(outcomes) : outcomes[i] = "cancelled"
    /\ sink # << >>

\* C9: a file processed to completion contributes ceil(k / n) points, k being
\* its number of in-corridor points and n the stride.
C9_FileWritesCeilKOverN ==
    \A j \in 1..Len(processing_stats) :
        processing_stats[j].points_written
            = CeilDiv(processing_stats[j].points_within_corridor, nth_point)

\* 0-based raw positions of the in-corridor points of the chunk
InCorridorPositions == {p \in 0..(Len(chunkMask) - 1) : chunkMask[p + 1]}

\* 0-based position of raw position p within the in-corridor sequence
RankInCorridor(p) == Cardinality({q \in InCorridorPositions : q < p})

\* C10: with stride n > 1 the points written for a chunk are exactly the
\* in-corridor points whose position in the in-corridor sequence is a
\* multiple of n, in their original order; with n = 3 and seven in-corridor
\* points these are the first, fourth and seventh.
C10_StrideOnFilteredSequence ==
    (chunkPhase = "written" /\ nth_point > 1)
        => /\ {chunkOut[j] : j \in 1..Len(chunkOut)}
                = {p \in InCorridorPositions : RankInCorridor(p) % nth_point = 0}
           /\ \A j \in 1..(Len(chunkOut) - 1) : chunkOut[j] < chunkOut[j + 1]
           /\ (nth_point = 3 /\ Cardinality(InCorridorPositions) = 7)
                => /\ Len(chunkOut) = 3
                   /\ RankInCorridor(chunkOut[1]) = 0
                   /\ RankInCorridor(chunkOut[2]) = 3
                   /\ RankInCorridor(chunkOut[3]) = 6

C10_Witness ==
    /\ chunkPhase = "written"
    /\ nth_point = 3
    /\ chunkMask = <<FALSE, TRUE, TRUE, TRUE, TRUE, TRUE, TRUE, TRUE>>
    /\ chunkOut = <<1, 4, 7>>

\* 1-based position of file f in the selected list
FilePos(f) == CHOOSE i \in 1..Len(valid_files) : valid_files[i] = f

\* C11: the points in the sink are in selected-file order, then in the order
\* they have in their file (chunk order, then order within the chunk); no
\* point of a later file or chunk precedes a point of an earlier one.
C11_SinkInFileChunkOrder ==
    \A i, j \in 1..Len(sink) :
        i < j =>
            \/ FilePos(sink[i][1]) < FilePos(sink[j][1])
            \/ sink[i][1] = sink[j][1] /\ sink[i][2] < sink[j][2]

C11_Witness ==
    /\ pc = "done"
    /\ Len(valid_files) = 2
    /\ sink = << <<valid_files[1], 2>>, <<valid_files[1], 3>>,
                 <<valid_files[2], 1>> >>

\* C12: the output header comes from the first selected file, and in a run
\* without cancellation or top-level exception every selected file, the
\* first included, is passed to process_las_file exactly once.
C12_HeaderFromFirstAllFilesOnce ==
    /\ openCount >= 1 => header = valid_files[1]
    /\ (pc = "done" /\ openCount >= 1 /\ ~escaped /\ ~cancelObserved)
         => \A f \in 1..Len(valid_files) :
              Cardinality({i \in 1..Len(attempted) : attempted[i] = f}) = 1

C12_Witness ==
    /\ pc = "done" /\ ~escaped /\ ~cancelObserved
    /\ Len(valid_files) = 2
    /\ header = valid_files[1]
    /\ attempted = <<1, 2>>
    /\ \E k \in 1..Len(sink) : sink[k][1] = valid_files[1]

\* C13 as stated: once the cancel event is set, the file being processed
\* returns no statistics.
C13_CancelledFileHasNoStats ==
    [][(cancel /\ pc \in {"chunk", "chunk_body"})
          => processing_stats' = processing_stats]_vars

\* C13 amended: cancellation is polled only before each file and before each
\* chunk. Once the event is set only the chunk whose poll already passed is
\* still written; a file that has a further chunk is then aborted without
\* statistics; points already in the sink stay; no further file is started.
C13_CancelAtChunkBoundary ==
    [][/\ pc' = "chunk_body" => ~cancel
       /\ (cancel /\ pc # "chunk_body") => sink' = sink
       /\ cancel => attempted' = attempted
       /\ Len(sink') >= Len(sink) /\ SubSeq(sink', 1, Len(sink)) = sink
       /\ (/\ cancel
           /\ pc = "chunk"
           /\ file_stats.points_processed < file_stats.total_points)
            => /\ pc' = "loop"
               /\ processing_stats' = processing_stats
               /\ sink' = sink]_vars

C13_Witness ==
    /\ pc = "done" /\ cancelObserved
    /\ outcomes = <<"cancelled">>
    /\ Len(valid_files) = 2
    /\ sink # << >>
    /\ processing_stats = << >>

\* ----------------------------------- SpecSelect: select_las_files_for_corridor
\* relations of a file's CRS to the corridor CRS: the same CRS (no transform
\* is applied), or a different CRS whose Transformer is a translation, an
\* axis swap, or a non-affine map that bends lines of constant y
Transforms == {"same", "shift", "swap", "bow"}

\* transformer.transform(xc, yc) for a file CRS of the given kind
Transform(kind, p) ==
    CASE kind = "shift" -> <<p[1] + 1, p[2]>>
      [] kind = "swap"  -> <<p[2], p[1]>>
      [] kind = "bow"   -> <<p[1], p[2] + 2 * p[1] * (2 - p[1])>>
      [] OTHER          -> p

SetMin(S) == CHOOSE m \in S : \A e \in S : m <= e

SetMax(S) == CHOOSE m \in S : \A e \in S : e <= m

\* coordinates of the header boxes
Grid == 0..2

\* header boxes: min <= max on both axes
Boxes ==
    {r \in [x1 : Grid, x2 : Grid, y1 : Grid, y2 : Grid] :
        r.x1 <= r.x2 /\ r.y1 <= r.y2}

\* corridor rectangles with a non-empty interior: along the top of the
\* grid, along its right side, and at its far corner
Corridors ==
    {[x1 |-> 0, x2 |-> 2, y1 |-> 1, y2 |-> 3],
     [x1 |-> 1, x2 |-> 3, y1 |-> 0, y2 |-> 1],
     [x1 |-> 2, x2 |-> 3, y1 |-> 2, y2 |-> 3]}

\* the four corners, in the order of the source
Corners(b) == <<<<b.x1, b.y1>>, <<b.x1, b.y2>>, <<b.x2, b.y1>>, <<b.x2, b.y2>>>>

\* box(min(xs), min(ys), max(xs), max(ys)) of transformed corners
Envelope(pts) ==
    [x1 |-> SetMin({pts[i][1] : i \in 1..Len(pts)}),
     x2 |-> SetMax({pts[i][1] : i \in 1..Len(pts)}),
     y1 |-> SetMin({pts[i][2] : i \in 1..Len(pts)}),
     y2 |-> SetMax({pts[i][2] : i \in 1..Len(pts)})]

\* las_bounds: the header box, or the envelope of its transformed corners
LasBounds(b, kind) ==
    IF kind = "same"
    THEN b
    ELSE Envelope([i \in 1..4 |-> Transform(kind, Corners(b)[i])])

\* las_bounds.intersects(corridor_polygon) for closed rectangles
Intersects(b, r) ==
    /\ b.x1 <= r.x2 /\ r.x1 <= b.x2
    /\ b.y1 <= r.y2 /\ r.y1 <= b.y2

\* polygon.contains(Point(p)): strictly inside the rectangle
Contains(r, p) == r.x1 < p[1] /\ p[1] < r.x2 /\ r.y1 < p[2] /\ p[2] < r.y2

\* some position of the header box lies, once transformed, in the corridor
HasProbe(b, kind, r) ==
    \E x \in b.x1..b.x2 : \E y \in b.y1..b.y2 :
        Contains(r, Transform(kind, <<x, y>>))

\* all lists without repetition over the file ids 1..n
FileLists(n) ==
    UNION {{l \in [1..k -> 1..n] : \A i, j \in 1..k : i # j => l[i] # l[j]} :
             k \in 0..n}

InitSelect ==
    /\ MainIdle
    /\ ChunkIdle
    /\ TxtIdle
    /\ GeomIdle
    /\ ExtraIdle
    /\ selPhase = "run"
    /\ selCorridor \in Corridors
    /\ default_las_crs \in BOOLEAN
    /\ selDefaultKind \in IF default_las_crs THEN Transforms ELSE {"same"}
    /\ all_las_files \in FileLists(MaxFiles)
    /\ selIdx = 1
    /\ selected_files = << >>
    /\ selChecked = << >>
    /\ selLast = NoCheck

\* las_crs of a file: its own, else the default CRS, else none (file skipped)
ResolveCrs(crs) ==
    IF crs = "none"
    THEN IF default_las_crs THEN selDefaultKind ELSE "none"
    ELSE crs

\* an error on one file ends the selection
SelectOutcome_AbortOnError(raises, crs, b) ==
    LET hit == /\ ~raises
               /\ ResolveCrs(crs) # "none"
               /\ Intersects(LasBounds(b, ResolveCrs(crs)), selCorridor)
    IN [selected |-> hit,
        err |-> raises,
        nocrs |-> ~raises /\ crs = "none",
        stop |-> raises,
        envHit |-> hit,
        probe |-> /\ ~raises
                  /\ ResolveCrs(crs) # "none"
                  /\ HasProbe(b, ResolveCrs(crs), selCorridor)]

\* what one iteration of the loop does with a file whose open or header read
\* raises or not, whose CRS is crs ("none" if it has none) and whose header
\* box is b; stop tells whether the loop ends with this file
SelectOutcome(raises, crs, b) ==
    LET hit == /\ ~raises
               /\ ResolveCrs(crs) # "none"
               /\ Intersects(LasBounds(b, ResolveCrs(crs)), selCorridor)
    IN [selected |-> hit,
        err |-> raises,
        nocrs |-> ~raises /\ crs = "none",
        stop |-> FALSE,
        envHit |-> hit,
        probe |-> /\ ~raises
                  /\ ResolveCrs(crs) # "none"
                  /\ HasProbe(b, ResolveCrs(crs), selCorridor)]

\* one iteration of `for idx, las_file_path in enumerate(las_files_list)`
SelectFile ==
    /\ selPhase = "run"
    /\ selIdx <= Len(all_las_files)
    /\ \E raises \in BOOLEAN, crs \in {"none"} \cup Transforms, b \in Boxes :
         LET o == SelectOutcome(raises, crs, b)
         IN /\ selected_files' = IF o.selected
                                 THEN Append(selected_files, all_las_files[selIdx])
                                 ELSE selected_files
            /\ selChecked' = Append(selChecked,
                                [file |-> all_las_files[selIdx], err |-> o.err])
            /\ selLast' = [file |-> all_las_files[selIdx], err |-> o.err,
                           nocrs |-> o.nocrs,
                           used |-> IF o.err THEN "none" ELSE ResolveCrs(crs),
                           selected |-> o.selected, envHit |-> o.envHit,
                           probe |-> o.probe]
            /\ selPhase' = IF o.stop THEN "done" ELSE "run"
    /\ selIdx' = selIdx + 1
    /\ UNCHANGED <<mainVars, chunkVars, txtVars, geomVars, extraVars,
                   default_las_crs, all_las_files,
                   selCorridor, selDefaultKind>>

\* return selected_files
SelectReturn ==
    /\ selPhase = "run"
    /\ selIdx > Len(all_las_files)
    /\ selPhase' = "done"
    /\ UNCHANGED <<mainVars, chunkVars, txtVars, geomVars, extraVars,
                   default_las_crs, all_las_files,
                   selCorridor, selDefaultKind, selIdx, selected_files,
                   selChecked, selLast>>

NextSelect ==
    \/ SelectFile
    \/ SelectReturn

SpecSelect == InitSelect /\ [][NextSelect]_vars

\* position of file f in the input list
ListPos(f) == CHOOSE i \in 1..Len(all_las_files) : all_las_files[i] = f

\* C14: the list returned is a sub-list of the input in the input's order,
\* without repetition; a file whose inspection raises is left out and the
\* files after it are still checked.
C14_SelectionIsSubsequence ==
    /\ \A i \in 1..Len(selected_files) :
         \E k \in 1..Len(all_las_files) : all_las_files[k] = selected_files[i]
    /\ \A i, j \in 1..Len(selected_files) :
         i < j => ListPos(selected_files[i]) < ListPos(selected_files[j])
    /\ \A k \in 1..Len(selChecked) :
         selChecked[k].err =>
           \A i \in 1..Len(selected_files) :
             selected_files[i] # selChecked[k].file
    /\ selPhase = "done" =>
         [k \in 1..Len(selChecked) |-> selChecked[k].file] = all_las_files

C14_Witness ==
    /\ selPhase = "done"
    /\ all_las_files = <<2, 1>>
    /\ selChecked[1].err
    /\ selected_files = <<1>>

\* C15: a file with a readable header and a resolvable CRS is selected iff the
\* box compared by the selector intersects the corridor, and it is never left
\* out when its header box holds a position that lies in the corridor.
C15_SelectedIffBoxIntersects ==
    (/\ selLast.file # 0
     /\ ~selLast.err
     /\ selLast.nocrs => default_las_crs)
      => LET isSelected == \E i \in 1..Len(selected_files) :
                             selected_files[i] = selLast.file
         IN /\ isSelected <=> selLast.envHit
            /\ selLast.probe => isSelected

\* ------------------------------- SpecCrs: files without CRS in both functions
\* the selector on any input, or process_corridor in download mode with every
\* point kept and no earlier output
InitCrs ==
    \/ InitSelect
    \/ /\ Init
       /\ nth_point = 1
       /\ source_option = 3
       /\ network_dir
       /\ outputContent = "none"

NextCrs ==
    \/ Next
    \/ NextSelect

SpecCrs == InitCrs /\ [][NextCrs]_vars

\* C16: a file without CRS is only handled by the fallback. In the selector
\* it is compared in the default CRS if there is one and is not selected
\* otherwise, and every file of the list is still checked. In
\* process_las_file its points are read only under its own or the default
\* CRS; without either the call yields no statistics and no written point
\* and the files after it are still processed.
C16_NoCrsFallbackOnly ==
    /\ (selLast.file # 0 /\ selLast.nocrs) =>
         IF default_las_crs
         THEN /\ selLast.used = selDefaultKind
              /\ selLast.selected <=> selLast.envHit
         ELSE /\ selLast.used = "none"
              /\ ~selLast.selected
              /\ \A i \in 1..Len(selected_files) :
                   selected_files[i] # selLast.file
    /\ selPhase = "done" => Len(selChecked) = Len(all_las_files)
    /\ pc \in {"chunk", "chunk_body"} =>
         /\ las_crs \in {"present", "default"}
         /\ las_crs = "default" => default_las_crs
    /\ \A i \in 1..Len(outcomes) :
         outcomes[i] = "no_crs" =>
           /\ ~default_las_crs
           /\ \A j \in 1..Len(processing_stats) :
                processing_stats[j].file # valid_files[attempted[i]]
           /\ \A j \in 1..Len(sink) : sink[j][1] # valid_files[attempted[i]]
    /\ (pc = "done" /\ openCount >= 1 /\ ~escaped /\ ~cancelObserved)
         => Len(outcomes) = Len(valid_files)

C16_Witness ==
    /\ pc = "done" /\ ~escaped /\ ~cancelObserved
    /\ ~default_las_crs
    /\ outcomes = <<"no_crs", "ok">>
    /\ Len(processing_stats) = 1
    /\ sink # << >>

\* --------------------------------------------- SpecTxt: convert_las_to_txt
\* most points in the LAS file
MaxTxtPoints == 2

\* points per chunk of the scan
TxtChunkSize == 1

\* coordinates in units of 0.0005, so that two of them print alike
PointValues == [c : Classes, x : 0..2, y : 0..1, z : 0..1]

\* f"{v:.3f}": the nearest multiple of 0.001, in units of 0.001
Fmt3(v) == (v + 1) \div 2

\* f"{c_code},{x_val:.3f},{y_val:.3f},{z_val:.3f}\n" for the point at position i
Line(c_code, i) ==
    [c |-> c_code, x |-> Fmt3(txtPoints[i].x), y |-> Fmt3(txtPoints[i].y),
     z |-> Fmt3(txtPoints[i].z), src |-> i]

\* key=lambda p: (p[0], p[1], p[2]), compared as tuples
KeyLE_WithZ(i, j) ==
    \/ txtPoints[i].x < txtPoints[j].x
    \/ /\ txtPoints[i].x = txtPoints[j].x
       /\ \/ txtPoints[i].y < txtPoints[j].y
          \/ /\ txtPoints[i].y = txtPoints[j].y
             /\ txtPoints[i].z <= txtPoints[j].z

\* key=lambda p: (p[0], p[1]), compared as tuples
KeyLE(i, j) ==
    \/ txtPoints[i].x < txtPoints[j].x
    \/ /\ txtPoints[i].x = txtPoints[j].x
       /\ txtPoints[i].y <= txtPoints[j].y

\* position i put after the last element of a sorted list whose key is not
\* greater than its own
InsertSorted(sq, i) ==
    LET n == Cardinality({k \in 1..Len(sq) : KeyLE(sq[k], i)})
    IN SubSeq(sq, 1, n) \o <<i>> \o SubSeq(sq, n + 1, Len(sq))

RECURSIVE Sorted(_)
\* sorted(bucket, key=...): a stable sort
Sorted(bucket) ==
    IF bucket = << >>
    THEN << >>
    ELSE InsertSorted(Sorted(SubSeq(bucket, 1, Len(bucket) - 1)),
                      bucket[Len(bucket)])

RECURSIVE WriteOrderFrom(_)
\* the lines of the classes c, c+1, ... in the order of the two nested loops
WriteOrderFrom(c) ==
    IF c \notin Classes
    THEN << >>
    ELSE [k \in 1..Len(points_by_class[c]) |->
            Line(c, Sorted(points_by_class[c])[k])] \o WriteOrderFrom(c + 1)

\* for c_code in sorted(points_by_class.keys()): for ... in sorted_points
WriteOrder == WriteOrderFrom(0)

InitTxt ==
    /\ MainIdle
    /\ default_las_crs = FALSE
    /\ all_las_files = << >>
    /\ ChunkIdle
    /\ SelIdle
    /\ GeomIdle
    /\ ExtraIdle
    /\ txtPc = "scan"
    /\ cancel_event \in BOOLEAN
    /\ txtPoints \in UNION {[1..n -> PointValues] : n \in 0..MaxTxtPoints}
    /\ processed = 0
    /\ points_by_class = [c \in Classes |-> << >>]
    /\ txtFile \in {"none", "old"}
    /\ txtLines = << >>
    /\ written = 0
    /\ txtResult = "none"
    /\ txtRaised = FALSE
    /\ txtCancelSeen = FALSE

txtOthers == <<mainVars, default_las_crs, all_las_files, chunkVars, selVars,
               geomVars, extraVars>>

\* `return False` after a poll found the event set; a file opened for writing
\* is closed on the way out
TxtReturnCancelled ==
    /\ txtCancelSeen' = TRUE
    /\ txtResult' = "False"
    /\ txtFile' = IF txtFile = "open" THEN "closed" ELSE txtFile
    /\ txtPc' = "finally"
    /\ UNCHANGED <<cancel_event, txtPoints, processed, points_by_class,
                   txtLines, written, txtRaised, txtOthers>>

\* the poll at the top of a chunk of the scan finds the event set
TxtScanCancel ==
    /\ txtPc = "scan"
    /\ processed < Len(txtPoints)
    /\ cancel_event
    /\ TxtReturnCancelled

\* one chunk of the scan: each point appended to the bucket of int(c)
TxtScanChunk ==
    /\ txtPc = "scan"
    /\ processed < Len(txtPoints)
    /\ ~cancel_event
    /\ LET last == Min(processed + TxtChunkSize, Len(txtPoints))
       IN /\ points_by_class' =
               [c \in Classes |->
                  points_by_class[c] \o
                    Filtered([k \in 1..(last - processed) |-> processed + k],
                             [k \in 1..(last - processed) |->
                                txtPoints[processed + k].c = c])]
          /\ processed' = last
    /\ UNCHANGED <<txtPc, cancel_event, txtPoints, txtFile, txtLines, written,
                   txtResult, txtRaised, txtCancelSeen, txtOthers>>

\* with txt_file.open("w"): the file is created or truncated
TxtOpen ==
    /\ txtPc = "scan"
    /\ processed = Len(txtPoints)
    /\ txtFile' = "open"
    /\ txtLines' = << >>
    /\ written' = 0
    /\ txtPc' = "write"
    /\ UNCHANGED <<cancel_event, txtPoints, processed, points_by_class,
                   txtResult, txtRaised, txtCancelSeen, txtOthers>>

\* the event is not polled before a line is written
TxtWriteCancel_NoPoll ==
    /\ txtPc = "write"
    /\ written < Len(WriteOrder)
    /\ cancel_event
    /\ txtLines' = Append(txtLines, WriteOrder[written + 1])
    /\ written' = written + 1
    /\ UNCHANGED <<txtPc, cancel_event, txtPoints, processed, points_by_class,
                   txtFile, txtResult, txtRaised, txtCancelSeen, txtOthers>>

\* the poll before a line is written finds the event set
TxtWriteCancel ==
    /\ txtPc = "write"
    /\ written < Len(WriteOrder)
    /\ cancel_event
    /\ TxtReturnCancelled

\* outfile.write(...) of the next point
TxtWritePoint ==
    /\ txtPc = "write"
    /\ written < Len(WriteOrder)
    /\ ~cancel_event
    /\ txtLines' = Append(txtLines, WriteOrder[written + 1])
    /\ written' = written + 1
    /\ UNCHANGED <<txtPc, cancel_event, txtPoints, processed, points_by_class,
                   txtFile, txtResult, txtRaised, txtCancelSeen, txtOthers>>

\* all lines written: the file is closed and `return True` is reached
TxtReturnTrue ==
    /\ txtPc = "write"
    /\ written = Len(WriteOrder)
    /\ txtFile' = "closed"
    /\ txtResult' = "True"
    /\ txtPc' = "finally"
    /\ UNCHANGED <<cancel_event, txtPoints, processed, points_by_class,
                   txtLines, written, txtRaised, txtCancelSeen, txtOthers>>

\* an exception while reading, opening or writing: the handler unlinks
\* txt_file if it exists and returns False
TxtRaise ==
    /\ txtPc \in {"scan", "write"}
    /\ txtRaised' = TRUE
    /\ txtFile' = "none"
    /\ txtLines' = << >>
    /\ txtResult' = "False"
    /\ txtPc' = "finally"
    /\ UNCHANGED <<cancel_event, txtPoints, processed, points_by_class,
                   written, txtCancelSeen, txtOthers>>

\* finally: unlink txt_file if the event is set and the file exists
TxtFinally ==
    /\ txtPc = "finally"
    /\ IF cancel_event /\ txtFile # "none"
       THEN txtFile' = "none" /\ txtLines' = << >>
       ELSE UNCHANGED <<txtFile, txtLines>>
    /\ txtPc' = "done"
    /\ UNCHANGED <<cancel_event, txtPoints, processed, points_by_class,
                   written, txtResult, txtRaised, txtCancelSeen, txtOthers>>

\* another thread sets the event while the conversion runs
TxtCancel ==
    /\ txtPc \in {"scan", "write", "finally"}
    /\ ~cancel_event
    /\ cancel_event' = TRUE
    /\ UNCHANGED <<txtPc, txtPoints, processed, points_by_class, txtFile,
                   txtLines, written, txtResult, txtRaised, txtCancelSeen,
                   txtOthers>>

NextTxt ==
    \/ TxtScanCancel
    \/ TxtScanChunk
    \/ TxtOpen
    \/ TxtWriteCancel
    \/ TxtWritePoint
    \/ TxtReturnTrue
    \/ TxtRaise
    \/ TxtFinally
    \/ TxtCancel

SpecTxt == InitTxt /\ [][NextTxt]_vars

\* the raw (x, y) of the point of line k is not greater than that of line l
RawKeyLE(k, l) ==
    LET p == txtPoints[txtLines[k].src]
        q == txtPoints[txtLines[l].src]
    IN p.x < q.x \/ (p.x = q.x /\ p.y <= q.y)

C18_CancelOrErrorLeavesNoFile ==
    [][/\ cancel_event =>
            /\ processed' = processed
            /\ written' = written
            /\ Len(txtLines') <= Len(txtLines)
       /\ (/\ cancel_event
           /\ \/ txtPc = "scan" /\ processed < Len(txtPoints)
              \/ txtPc = "write" /\ written < Len(txtPoints))
            => /\ txtPc' = "finally"
               /\ txtResult' = "False"
               /\ txtCancelSeen' \/ txtRaised'
       /\ (txtPc' = "done" /\ (txtCancelSeen' \/ txtRaised'))
            => /\ txtResult' = "False"
               /\ txtFile' = "none"]_vars

C18_Witness ==
    /\ txtPc = "done"
    /\ txtCancelSeen
    /\ ~txtRaised
    /\ written = 1 /\ Len(txtPoints) = 2
    /\ txtResult = "False"
    /\ txtFile = "none"

\* ------------------------------------- SpecGeom: calculate_corridor_polygon
\* largest corridor half-width
MaxHalfWidth == 2

Abs(v) == IF v < 0 THEN -v ELSE v

\* end - start for segments whose length is a whole number (or zero), so that
\* the cosine and the sine of the direction are fractions
Deltas ==
    {d \in (-4..4) \X (-4..4) : \E l \in 0..5 : l * l = d[1] * d[1] + d[2] * d[2]}

\* math.hypot(dx, dy) for the segments of Deltas
Hypot(dx, dy) == CHOOSE l \in 0..(Abs(dx) + Abs(dy)) : l * l = dx * dx + dy * dy

\* the common denominator of cos(angle) and sin(angle); atan2(0, 0) is 0
Den(dx, dy) == IF dx = 0 /\ dy = 0 THEN 1 ELSE Hypot(dx, dy)

\* math.cos(math.atan2(dy, dx)) times Den(dx, dy)
CosNum(dx, dy) == IF dx = 0 /\ dy = 0 THEN 1 ELSE dx

\* math.sin(math.atan2(dy, dx)) times Den(dx, dy)
SinNum(dx, dy) == IF dx = 0 /\ dy = 0 THEN 0 ELSE dy

\* the corners without the extension past the two end points
CornersOf_NoEndBuffer(xs, ys, xe, ye, hw) ==
    LET n == Den(xe - xs, ye - ys)
        buffer_x == hw * (-SinNum(xe - xs, ye - ys))
        buffer_y == hw * CosNum(xe - xs, ye - ys)
    IN <<<<n * xs + buffer_x, n * ys + buffer_y>>,
         <<n * xs - buffer_x, n * ys - buffer_y>>,
         <<n * xe - buffer_x, n * ye - buffer_y>>,
         <<n * xe + buffer_x, n * ye + buffer_y>>>>

\* corners, every coordinate multiplied by Den(dx, dy);
\* cos(angle + pi/2) = -sin(angle) and sin(angle + pi/2) = cos(angle)
CornersOf(xs, ys, xe, ye, hw) ==
    LET n == Den(xe - xs, ye - ys)
        buffer_x == hw * (-SinNum(xe - xs, ye - ys))
        buffer_y == hw * CosNum(xe - xs, ye - ys)
        end_buffer_x == hw * CosNum(xe - xs, ye - ys)
        end_buffer_y == hw * SinNum(xe - xs, ye - ys)
    IN <<<<n * xs - end_buffer_x + buffer_x, n * ys - end_buffer_y + buffer_y>>,
         <<n * xs - end_buffer_x - buffer_x, n * ys - end_buffer_y - buffer_y>>,
         <<n * xe + end_buffer_x - buffer_x, n * ye + end_buffer_y - buffer_y>>,
         <<n * xe + end_buffer_x + buffer_x, n * ye + end_buffer_y + buffer_y>>>>

\* twice Polygon(c).area: the absolute value of the shoelace sum
Shoelace2(c) ==
    LET nxt(i) == (i % Len(c)) + 1
    IN Abs(SumSeq([i \in 1..Len(c) |->
                     c[i][1] * c[nxt(i)][2] - c[nxt(i)][1] * c[i][2]]))

InitGeom ==
    /\ MainIdle
    /\ default_las_crs = FALSE
    /\ all_las_files = << >>
    /\ ChunkIdle
    /\ SelIdle
    /\ TxtIdle
    /\ ExtraIdle
    /\ geoPhase = "input"
    /\ x_start \in 0..1
    /\ y_start \in 0..1
    /\ \E d \in Deltas : x_end = x_start + d[1] /\ y_end = y_start + d[2]
    /\ corridor_half_width \in -1..MaxHalfWidth
    /\ corners = << >>
    /\ area2 = 0

geomOthers == <<mainVars, default_las_crs, all_las_files, chunkVars, selVars,
                txtVars, extraVars>>

\* corridor_polygon = calculate_corridor_polygon(...)
BuildCorridor ==
    /\ geoPhase = "input"
    /\ corners' = CornersOf(x_start, y_start, x_end, y_end, corridor_half_width)
    /\ geoPhase' = "built"
    /\ UNCHANGED <<x_start, y_start, x_end, y_end, corridor_half_width, area2,
                   geomOthers>>

\* corridor_polygon.area, read for the statistics line
CorridorStats ==
    /\ geoPhase = "built"
    /\ area2' = Shoelace2(corners)
    /\ geoPhase' = "stats"
    /\ UNCHANGED <<x_start, y_start, x_end, y_end, corridor_half_width,
                   corners, geomOthers>>

NextGeom ==
    \/ BuildCorridor
    \/ CorridorStats

SpecGeom == InitGeom /\ [][NextGeom]_vars

\* corridor_length = math.hypot(x_end - x_start, y_end - y_start)
corridor_length == Hypot(x_end - x_start, y_end - y_start)

\* half-width > 0 and start != end
ValidCorridor ==
    /\ corridor_half_width > 0
    /\ x_start # x_end \/ y_start # y_end

\* C19 as stated: for a valid corridor the polygon has four vertices and its
\* area is length x 2 x halfWidth (here: twice the area, times length squared).
C19_AreaIsLengthTimesWidth ==
    (geoPhase = "stats" /\ ValidCorridor)
      => /\ Len(corners) = 4
         /\ area2 = 2 * corridor_length * corridor_length
                      * (corridor_length * 2 * corridor_half_width)

\* C19, amended: for a valid corridor the polygon has four distinct vertices
\* and its area is (length + 2 x halfWidth) x 2 x halfWidth, the rectangle
\* reaching halfWidth past each end of the segment.
C19_AreaIncludesEndCaps ==
    (geoPhase = "stats" /\ ValidCorridor)
      => /\ Len(corners) = 4
         /\ \A i, j \in 1..4 : i # j => corners[i] # corners[j]
         /\ area2 = 2 * corridor_length * corridor_length
                      * ((corridor_length + 2 * corridor_half_width)
                         * 2 * corridor_half_width)

C19_Witness ==
    /\ geoPhase = "stats"
    /\ ValidCorridor
    /\ x_end - x_start = 3 /\ y_end - y_start = 4
    /\ corridor_half_width = 2
    /\ area2 > 0

\* C20: with a half-width that is not positive no polygon is built.
C20_NonPositiveHalfWidthFails ==
    (geoPhase \in {"built", "stats"} /\ corridor_half_width <= 0)
      => corners = << >>

\* ------------------------------------------------ further claims under Spec
\* C25: when process_corridor has returned without an exception, the total
\* of points written that it aggregated equals the number of points appended
\* to the sink.
C25_TotalWrittenEqualsSink ==
    (pc = "done" /\ ~escaped /\ openCount >= 1)
      => total_points_written = Len(sink)

\* the counters of one statistics record are ordered
CountersOrdered(st) ==
    /\ st.points_written <= st.points_within_corridor
    /\ st.points_within_corridor <= st.points_processed
    /\ st.points_processed <= st.total_points

\* C30: after every step the counters of the file being read satisfy
\* points_written <= points_within_corridor <= points_processed <=
\* total_points; while the same file is being read no counter decreases; and
\* statistics returned to the orchestrator are ordered in the same way with
\* points_processed = total_points.
C30_CountersOrderedAndMonotone ==
    [][/\ CountersOrdered(file_stats')
       /\ (file_stats.file # 0 /\ file_stats'.file = file_stats.file)
            => /\ file_stats'.points_written >= file_stats.points_written
               /\ file_stats'.points_within_corridor
                    >= file_stats.points_within_corridor
               /\ file_stats'.points_processed >= file_stats.points_processed
               /\ file_stats'.total_points = file_stats.total_points
       /\ Len(processing_stats') > Len(processing_stats)
            => /\ CountersOrdered(processing_stats'[Len(processing_stats')])
               /\ processing_stats'[Len(processing_stats')].points_processed
                    = processing_stats'[Len(processing_stats')].total_points]_vars

C30_Witness ==
    /\ pc = "done"
    /\ \E j \in 1..Len(processing_stats) :
         /\ processing_stats[j].points_written = 1
         /\ processing_stats[j].points_within_corridor = 2
         /\ processing_stats[j].points_processed = 3
         /\ processing_stats[j].total_points = 3

\* C28: as long as the run has not opened its own writer, what is at the
\* output path stays as it is.
C28_EarlyEndKeepsOldOutput ==
    [][openCount' = 0 => outputContent' = outputContent]_vars

\* C27: when convert_las_to_txt has returned True, the text file exists at
\* the output path, closed and holding one line per point.
C27_TrueMeansFileComplete ==
    (txtPc = "done" /\ txtResult = "True")
      => /\ txtFile = "closed"
         /\ Len(txtLines) = Len(txtPoints)

\* ---------------------------------------- SpecPip: points_in_polygon_chunk
\* most points in a chunk
MaxPipLen == 2

\* coordinates of the points of a chunk
PipGrid == 0..4

\* convex polygons: a square, a diamond and a triangle
Polygons ==
    {<<<<1, 1>>, <<1, 3>>, <<3, 3>>, <<3, 1>>>>,
     <<<<2, 0>>, <<4, 2>>, <<2, 4>>, <<0, 2>>>>,
     <<<<0, 0>>, <<4, 0>>, <<0, 4>>>>}

\* polygon.bounds
PolyBounds(poly) == Envelope(poly)

\* side of point p relative to the edge from vertex i to the next vertex
EdgeSide(poly, i, p) ==
    LET a == poly[i]
        b == poly[(i % Len(poly)) + 1]
    IN (b[1] - a[1]) * (p[2] - a[2]) - (b[2] - a[2]) * (p[1] - a[1])

\* polygon.contains(Point(p)) for a convex polygon: p is in the interior
PolyContains(poly, p) ==
    \/ \A i \in 1..Len(poly) : EdgeSide(poly, i, p) > 0
    \/ \A i \in 1..Len(poly) : EdgeSide(poly, i, p) < 0

\* (x >= min_x) & (x <= max_x) & (y >= min_y) & (y <= max_y)
WithinBounds(poly, pts) ==
    [i \in 1..Len(pts) |->
       /\ pts[i][1] >= PolyBounds(poly).x1 /\ pts[i][1] <= PolyBounds(poly).x2
       /\ pts[i][2] >= PolyBounds(poly).y1 /\ pts[i][2] <= PolyBounds(poly).y2]

\* the candidates' results are written to the first positions of the mask
PointsInPolygonChunk_Unscattered(pts, poly) ==
    LET points_within_bounds == WithinBounds(poly, pts)
        candidate_points == Filtered(pts, points_within_bounds)
        candidate_mask == [j \in 1..Len(candidate_points) |->
                             PolyContains(poly, candidate_points[j])]
    IN IF NumTrue(points_within_bounds) = 0
       THEN [i \in 1..Len(pts) |-> FALSE]
       ELSE [i \in 1..Len(pts) |->
               i <= Len(candidate_mask) /\ candidate_mask[i]]

\* points_in_polygon_chunk(x_coords, y_coords, polygon)
PointsInPolygonChunk(pts, poly) ==
    LET points_within_bounds == WithinBounds(poly, pts)
        candidate_points == Filtered(pts, points_within_bounds)
        candidate_mask == [j \in 1..Len(candidate_points) |->
                             PolyContains(poly, candidate_points[j])]
    IN IF NumTrue(points_within_bounds) = 0
       THEN [i \in 1..Len(pts) |-> FALSE]
       ELSE [i \in 1..Len(pts) |->
               /\ points_within_bounds[i]
               /\ candidate_mask[NumTrue(SubSeq(points_within_bounds, 1, i))]]

InitPip ==
    /\ MainIdle
    /\ default_las_crs = FALSE
    /\ all_las_files = << >>
    /\ ChunkIdle
    /\ SelIdle
    /\ TxtIdle
    /\ GeomIdle
    /\ SceneIdle
    /\ GuiIdle
    /\ pipPhase = "input"
    /\ pipPolygon \in Polygons
    /\ pipChunk \in UNION {[1..n -> PipGrid \X PipGrid] : n \in 0..MaxPipLen}
    /\ pipMask = << >>

\* in_corridor = points_in_polygon_chunk(x, y, corridor_in_las_crs)
PipCall ==
    /\ pipPhase = "input"
    /\ pipMask' = PointsInPolygonChunk(pipChunk, pipPolygon)
    /\ pipPhase' = "done"
    /\ UNCHANGED <<pipPolygon, pipChunk, mainVars, default_las_crs,
                   all_las_files, chunkVars, selVars, txtVars, geomVars,
                   sceneVars, guiVars>>

NextPip == PipCall

SpecPip == InitPip /\ [][NextPip]_vars

\* C24: the mask returned has the length of the chunk, and its entry for a
\* point is true exactly if the polygon contains the point in its interior.
C24_TwoStageEqualsExact ==
    pipPhase = "done" =>
      /\ Len(pipMask) = Len(pipChunk)
      /\ \A i \in 1..Len(pipChunk) :
           pipMask[i] <=> PolyContains(pipPolygon, pipChunk[i])

C24_Witness ==
    /\ pipPhase = "done"
    /\ pipPolygon = <<<<2, 0>>, <<4, 2>>, <<2, 4>>, <<0, 2>>>>
    /\ pipChunk = <<<<1, 1>>, <<2, 2>>>>
    /\ pipMask = <<FALSE, TRUE>>

\* ------------- SpecScene: one file in the corridor's CRS through the pipeline
\* most points in the input file
MaxScenePoints == 2

\* corridor segments along the axes, <<x_start, y_start, x_end, y_end>>
Segments == {<<0, 0, 100, 0>>, <<0, 0, 0, 100>>, <<100, 0, 0, 0>>}

\* header boxes of the input file
SceneBoxes ==
    {[x1 |-> -5, x2 |-> 105, y1 |-> -15, y2 |-> 15],
     [x1 |-> 200, x2 |-> 300, y1 |-> -15, y2 |-> 15]}

\* points of the input file
ScenePointValues ==
    {[x |-> 50, y |-> 5, c |-> 2], [x |-> 50, y |-> 20, c |-> 2],
     [x |-> 50, y |-> 10, c |-> 1], [x |-> -10, y |-> 0, c |-> 2]}

\* the length the corners of scPolygon are multiplied by
SceneScale == Den(scSegment[3] - scSegment[1], scSegment[4] - scSegment[2])

InitScene ==
    /\ MainIdle
    /\ default_las_crs = FALSE
    /\ all_las_files = << >>
    /\ ChunkIdle
    /\ SelIdle
    /\ TxtIdle
    /\ GeomIdle
    /\ PipIdle
    /\ GuiIdle
    /\ scPhase = "input"
    /\ scSegment \in Segments
    /\ scHalfWidth \in {10, 25}
    /\ scStride \in 1..2
    /\ scBox \in SceneBoxes
    /\ scPoints \in UNION {[1..n -> ScenePointValues] : n \in 0..MaxScenePoints}
    /\ scPolygon = << >>
    /\ scSelected = FALSE
    /\ scOutput = << >>

sceneOthers == <<mainVars, default_las_crs, all_las_files, chunkVars, selVars,
                 txtVars, geomVars, pipVars, guiVars>>

\* corridor_polygon = calculate_corridor_polygon(...)
SceneBuild ==
    /\ scPhase = "input"
    /\ scPolygon' = CornersOf(scSegment[1], scSegment[2], scSegment[3],
                              scSegment[4], scHalfWidth)
    /\ scPhase' = "built"
    /\ UNCHANGED <<scSegment, scHalfWidth, scStride, scBox, scPoints,
                   scSelected, scOutput, sceneOthers>>

\* select_las_files_for_corridor on the one file, in the corridor's CRS; the
\* corridor of an axis-parallel segment is its own bounding rectangle
SceneSelect ==
    /\ scPhase = "built"
    /\ scSelected' = Intersects([x1 |-> SceneScale * scBox.x1,
                                 x2 |-> SceneScale * scBox.x2,
                                 y1 |-> SceneScale * scBox.y1,
                                 y2 |-> SceneScale * scBox.y2],
                                PolyBounds(scPolygon))
    /\ scPhase' = IF scSelected' THEN "selected" ELSE "done"
    /\ UNCHANGED <<scSegment, scHalfWidth, scStride, scBox, scPoints,
                   scPolygon, scOutput, sceneOthers>>

\* every point of the file is written
SceneProcess_NoFilter ==
    /\ scPhase = "selected"
    /\ scOutput' = scPoints
    /\ scPhase' = "done"
    /\ UNCHANGED <<scSegment, scHalfWidth, scStride, scBox, scPoints,
                   scPolygon, scSelected, sceneOthers>>

\* process_las_file on the file, read as one chunk
SceneProcess ==
    /\ scPhase = "selected"
    /\ LET in_corridor ==
               PointsInPolygonChunk(
                   [i \in 1..Len(scPoints) |->
                      <<SceneScale * scPoints[i].x, SceneScale * scPoints[i].y>>],
                   scPolygon)
       IN scOutput' = IF NumTrue(in_corridor) > 0
                      THEN ChunkSurvivors(scPoints, in_corridor, scStride)
                      ELSE << >>
    /\ scPhase' = "done"
    /\ UNCHANGED <<scSegment, scHalfWidth, scStride, scBox, scPoints,
                   scPolygon, scSelected, sceneOthers>>

NextScene ==
    \/ SceneBuild
    \/ SceneSelect
    \/ SceneProcess

SpecScene == InitScene /\ [][NextScene]_vars

\* the inputs of the scenario
Scenario ==
    /\ scSegment = <<0, 0, 100, 0>>
    /\ scHalfWidth = 10
    /\ scStride = 1
    /\ scBox = [x1 |-> -5, x2 |-> 105, y1 |-> -15, y2 |-> 15]
    /\ scPoints = <<[x |-> 50, y |-> 5, c |-> 2], [x |-> 50, y |-> 20, c |-> 2]>>

\* C23: in the scenario the file is selected and the output holds exactly the
\* point (50, 5) of classification 2.
C23_ScenarioKeepsInsidePoint ==
    (Scenario /\ scPhase = "done")
      => /\ scSelected
         /\ scOutput = <<[x |-> 50, y |-> 5, c |-> 2]>>

C23_Witness ==
    /\ Scenario
    /\ scPhase = "done"
    /\ scSelected
    /\ Len(scOutput) = 1

\* ------------- SpecGui: the window's handlers and the worker threads
\* the texts typed into the six entry fields
\* a degenerate and a proper segment with good values, and each of them
\* changed in one field
FieldChoices ==
    LET GoodFields ==
            [x_start : {"0"}, y_start : {"0"}, x_end : {"0", "1"},
             y_end : {"0"}, half_width : {"1.5"}, nth_point : {"1"}]
    IN GoodFields
         \cup {[g EXCEPT !.x_start = "abc"] : g \in GoodFields}
         \cup {[g EXCEPT !.y_end = ""] : g \in GoodFields}
         \cup {[g EXCEPT !.half_width = tok] :
                  g \in GoodFields, tok \in {"0", "-1"}}
         \cup {[g EXCEPT !.nth_point = tok] :
                  g \in GoodFields, tok \in {"0", "-1", "1.5"}}

\* the texts float() accepts
FloatTokens == {"0", "1", "-1", "1.5"}

\* the texts int() accepts
IntTokens == {"0", "1", "-1"}

\* float(tok), in halves
Float(tok) ==
    CASE tok = "0" -> 0
      [] tok = "1" -> 2
      [] tok = "-1" -> -2
      [] tok = "1.5" -> 3

\* int(tok)
Int_(tok) ==
    CASE tok = "0" -> 0
      [] tok = "1" -> 1
      [] tok = "-1" -> -1

\* validate_inputs without the test of nth_point
ValidateInputs_NoStrideCheck(f) ==
    IF \/ ~({f.x_start, f.y_start, f.x_end, f.y_end, f.half_width}
                \subseteq FloatTokens)
       \/ f.nth_point \notin IntTokens
    THEN [valid |-> FALSE, error_msg |-> "Invalid input"]
    ELSE IF Float(f.half_width) <= 0
    THEN [valid |-> FALSE,
          error_msg |-> "Corridor half-width must be a positive number."]
    ELSE [valid |-> TRUE, error_msg |-> "None"]

\* validate_inputs
ValidateInputs(f) ==
    IF \/ ~({f.x_start, f.y_start, f.x_end, f.y_end, f.half_width}
                \subseteq FloatTokens)
       \/ f.nth_point \notin IntTokens
    THEN [valid |-> FALSE, error_msg |-> "Invalid input"]
    ELSE IF Float(f.half_width) <= 0
    THEN [valid |-> FALSE,
          error_msg |-> "Corridor half-width must be a positive number."]
    ELSE IF Int_(f.nth_point) <= 0
    THEN [valid |-> FALSE,
          error_msg |-> "Point sampling rate must be a positive integer."]
    ELSE [valid |-> TRUE, error_msg |-> "None"]

\* processing_thread.is_alive() of run k
Alive(k) == k \in Runs /\ wpc[k] \notin {"none", "exited"}

\* run k has not yet put PROCESSING_COMPLETE
InProgress(k) ==
    wpc[k] \in {"setup", "running", "working", "check", "convert", "put",
                "handler"}

InitGui ==
    /\ MainIdle
    /\ default_las_crs = FALSE
    /\ all_las_files = << >>
    /\ ChunkIdle
    /\ SelIdle
    /\ TxtIdle
    /\ GeomIdle
    /\ PipIdle
    /\ SceneIdle
    /\ guiPc = "idle"
    /\ start_button = "normal"
    /\ cancel_button = "disabled"
    /\ guiEvent = FALSE
    /\ close_requested = FALSE
    /\ destroyed = FALSE
    /\ launches = 0
    /\ wpc = [k \in Runs |-> "none"]
    /\ putCount = [k \in Runs |-> 0]
    /\ queue = 0
    /\ consumed = 0
    /\ lastFields = NoFields
    /\ lastValid = "none"
    /\ run_args = [k \in Runs |-> NoArgs]
    /\ polygon_call = NoArgs
    /\ setSinceStart = FALSE
    /\ observedSet = FALSE

guiOthers == <<mainVars, default_las_crs, all_las_files, chunkVars, selVars,
               txtVars, geomVars, pipVars, sceneVars>>

\* the state start_processing leaves alone when it returns early
launchVars == <<guiPc, start_button, cancel_button, guiEvent, close_requested,
                destroyed, launches, wpc, putCount, queue, consumed, run_args,
                polygon_call, setSinceStart, observedSet>>

\* start_processing with the fields f, up to processing_thread.start()
StartWith(f, epsgOk) ==
    /\ guiPc = "idle"
    /\ ~destroyed
    /\ start_button = "normal"
    /\ lastFields' = f
    /\ IF ~ValidateInputs(f).valid
       THEN /\ lastValid' = "invalid"
            /\ UNCHANGED launchVars
       ELSE IF ~epsgOk
       THEN /\ lastValid' = "epsg"
            /\ UNCHANGED launchVars
       ELSE /\ launches < MaxRuns
            /\ lastValid' = "ok"
            /\ start_button' = "disabled"
            /\ cancel_button' = "normal"
            /\ launches' = launches + 1
            /\ run_args' = [run_args EXCEPT ![launches + 1] =
                   [x_start |-> Float(f.x_start), y_start |-> Float(f.y_start),
                    x_end |-> Float(f.x_end), y_end |-> Float(f.y_end),
                    half_width |-> Float(f.half_width),
                    nth_point |-> Int_(f.nth_point), set |-> TRUE]]
            /\ wpc' = [wpc EXCEPT ![launches + 1] = "setup"]
            /\ setSinceStart' = FALSE
            /\ observedSet' = FALSE
            /\ guiPc' = "launched"
            /\ UNCHANGED <<guiEvent, close_requested, destroyed, putCount,
                           queue, consumed, polygon_call>>
    /\ UNCHANGED guiOthers

StartProcessing == \E f \in FieldChoices, epsgOk \in BOOLEAN : StartWith(f, epsgOk)

\* the last statement of start_processing: self.cancel_event.clear()
ClearEvent ==
    /\ guiPc = "launched"
    /\ guiEvent' = FALSE
    /\ guiPc' = "idle"
    /\ UNCHANGED <<start_button, cancel_button, close_requested, destroyed,
                   launches, wpc, putCount, queue, consumed, lastFields,
                   lastValid, run_args, polygon_call, setSinceStart,
                   observedSet, guiOthers>>

\* process_queue finds PROCESSING_COMPLETE messages
ProcessQueue ==
    /\ guiPc = "idle"
    /\ ~destroyed
    /\ launches > 0
    /\ queue > 0
    /\ consumed' = consumed + queue
    /\ queue' = 0
    /\ start_button' = "normal"
    /\ cancel_button' = "disabled"
    /\ UNCHANGED <<guiPc, guiEvent, close_requested, destroyed, launches, wpc,
                   putCount, lastFields, lastValid, run_args, polygon_call,
                   setSinceStart, observedSet, guiOthers>>

\* cancel_processing, the command of the cancel button
CancelProcessing ==
    /\ guiPc = "idle"
    /\ ~destroyed
    /\ cancel_button = "normal"
    /\ IF Alive(launches)
       THEN /\ guiEvent' = TRUE
            /\ setSinceStart' = TRUE
            /\ cancel_button' = "disabled"
       ELSE UNCHANGED <<guiEvent, setSinceStart, cancel_button>>
    /\ UNCHANGED <<guiPc, start_button, close_requested, destroyed, launches,
                   wpc, putCount, queue, consumed, lastFields, lastValid,
                   run_args, polygon_call, observedSet, guiOthers>>

\* on_closing, the user confirming the dialog or not
OnClosing ==
    /\ guiPc = "idle"
    /\ ~destroyed
    /\ IF Alive(launches)
       THEN \/ /\ guiEvent' = TRUE
               /\ setSinceStart' = TRUE
               /\ start_button' = "disabled"
               /\ cancel_button' = "disabled"
               /\ close_requested' = TRUE
               /\ UNCHANGED destroyed
            \/ UNCHANGED <<guiEvent, setSinceStart, start_button,
                           cancel_button, close_requested, destroyed>>
       ELSE /\ destroyed' = TRUE
            /\ UNCHANGED <<guiEvent, setSinceStart, start_button,
                           cancel_button, close_requested>>
    /\ UNCHANGED <<guiPc, launches, wpc, putCount, queue, consumed, lastFields,
                   lastValid, run_args, polygon_call, observedSet, guiOthers>>

\* check_processing_thread, scheduled by on_closing
CheckProcessingThread ==
    /\ guiPc = "idle"
    /\ ~destroyed
    /\ close_requested
    /\ ~Alive(launches)
    /\ destroyed' = TRUE
    /\ UNCHANGED <<guiPc, start_button, cancel_button, guiEvent,
                   close_requested, launches, wpc, putCount, queue, consumed,
                   lastFields, lastValid, run_args, polygon_call,
                   setSinceStart, observedSet, guiOthers>>

\* what a worker step leaves alone
mainThreadVars == <<guiPc, start_button, cancel_button, guiEvent,
                    close_requested, destroyed, launches, lastFields,
                    lastValid, run_args, setSinceStart>>

\* run_processing enters process_corridor: the CRS objects, then the polygon
WorkerSetup(k) ==
    /\ wpc[k] = "setup"
    /\ \/ /\ polygon_call' = run_args[k]
          /\ wpc' = [wpc EXCEPT ![k] = "running"]
       \/ /\ wpc' = [wpc EXCEPT ![k] = "check"]
          /\ UNCHANGED polygon_call
    /\ UNCHANGED <<putCount, queue, consumed, observedSet, mainThreadVars,
                   guiOthers>>

\* process_corridor polls cancel_event
WorkerPoll(k) ==
    /\ wpc[k] = "running"
    /\ IF guiEvent
       THEN /\ observedSet' = (observedSet \/ k = launches)
            /\ wpc' = [wpc EXCEPT ![k] = "check"]
       ELSE /\ wpc' = [wpc EXCEPT ![k] = "working"]
            /\ UNCHANGED observedSet
    /\ UNCHANGED <<putCount, queue, consumed, polygon_call, mainThreadVars,
                   guiOthers>>

\* process_corridor returns True or False
WorkerReturn(k) ==
    /\ wpc[k] = "working"
    /\ wpc' = [wpc EXCEPT ![k] = "check"]
    /\ UNCHANGED <<putCount, queue, consumed, polygon_call, observedSet,
                   mainThreadVars, guiOthers>>

\* if self.cancel_event.is_set(): ... else: ... if success and export_txt
WorkerCheck(k) ==
    /\ wpc[k] = "check"
    /\ IF guiEvent
       THEN /\ observedSet' = (observedSet \/ k = launches)
            /\ wpc' = [wpc EXCEPT ![k] = "put"]
       ELSE /\ \E success \in BOOLEAN, export_txt \in BOOLEAN :
                 wpc' = [wpc EXCEPT ![k] =
                            IF success /\ export_txt THEN "convert" ELSE "put"]
            /\ UNCHANGED observedSet
    /\ UNCHANGED <<putCount, queue, consumed, polygon_call, mainThreadVars,
                   guiOthers>>

\* convert_las_to_txt returns, or an exception leaves it (the unlink of its
\* finally block fails)
WorkerConvert(k) ==
    /\ wpc[k] = "convert"
    /\ \E raised \in BOOLEAN :
         wpc' = [wpc EXCEPT ![k] = IF raised THEN "handler" ELSE "put"]
    /\ UNCHANGED <<putCount, queue, consumed, polygon_call, observedSet,
                   mainThreadVars, guiOthers>>

\* self.queue.put("PROCESSING_COMPLETE") at the end of the try block
WorkerPut(k) ==
    /\ wpc[k] = "put"
    /\ queue' = queue + 1
    /\ putCount' = [putCount EXCEPT ![k] = @ + 1]
    /\ wpc' = [wpc EXCEPT ![k] = "finishing"]
    /\ UNCHANGED <<consumed, polygon_call, observedSet, mainThreadVars,
                   guiOthers>>

\* the except block leaves without a message
WorkerPutExcept_NoPut(k) ==
    /\ wpc[k] = "handler"
    /\ wpc' = [wpc EXCEPT ![k] = "finishing"]
    /\ UNCHANGED <<queue, putCount, consumed, polygon_call, observedSet,
                   mainThreadVars, guiOthers>>

\* self.queue.put("PROCESSING_COMPLETE") in the except block
WorkerPutExcept(k) ==
    /\ wpc[k] = "handler"
    /\ queue' = queue + 1
    /\ putCount' = [putCount EXCEPT ![k] = @ + 1]
    /\ wpc' = [wpc EXCEPT ![k] = "finishing"]
    /\ UNCHANGED <<consumed, polygon_call, observedSet, mainThreadVars,
                   guiOthers>>

\* run_processing returns and the thread ends
WorkerExit(k) ==
    /\ wpc[k] = "finishing"
    /\ wpc' = [wpc EXCEPT ![k] = "exited"]
    /\ UNCHANGED <<putCount, queue, consumed, polygon_call, observedSet,
                   mainThreadVars, guiOthers>>

\* one step of the worker thread of run k
WorkerStep(k) ==
    \/ WorkerSetup(k)
    \/ WorkerPoll(k)
    \/ WorkerReturn(k)
    \/ WorkerCheck(k)
    \/ WorkerConvert(k)
    \/ WorkerPut(k)
    \/ WorkerPutExcept(k)
    \/ WorkerExit(k)

NextGui ==
    \/ StartProcessing
    \/ ClearEvent
    \/ ProcessQueue
    \/ CancelProcessing
    \/ OnClosing
    \/ CheckProcessingThread
    \/ \E k \in Runs : WorkerStep(k)

SpecGui == InitGui /\ [][NextGui]_vars

\* the scheduler runs every started thread
SpecGuiLive == SpecGui /\ \A k \in Runs : WF_vars(WorkerStep(k))

\* the input errors: a field that does not parse, a half-width or a stride
\* that is not positive
InputError(f) ==
    \/ \E tok \in {f.x_start, f.y_start, f.x_end, f.y_end, f.half_width} :
         tok \notin FloatTokens
    \/ f.nth_point \notin IntTokens
    \/ f.half_width \in FloatTokens /\ Float(f.half_width) <= 0
    \/ f.nth_point \in IntTokens /\ Int_(f.nth_point) <= 0

\* C21: start_processing on fields with an input error reports the error and
\* launches no worker, changes no button and leaves the queue, the event and
\* the worker's arguments alone.
C21_InputErrorLaunchesNothing ==
    [][\A epsgOk \in BOOLEAN :
         (InputError(lastFields') /\ StartWith(lastFields', epsgOk))
           => (lastValid' = "invalid" /\ UNCHANGED launchVars)]_vars

C21_Witness ==
    /\ lastValid = "invalid"
    /\ InputError(lastFields)
    /\ lastFields.nth_point = "1.5"
    /\ launches = 1
    /\ start_button = "normal"
    /\ cancel_button = "disabled"

\* C22: calculate_corridor_polygon is never called with the start point equal
\* to the end point.
C22_NoDegenerateCall ==
    polygon_call.set
      => ~(/\ polygon_call.x_start = polygon_call.x_end
           /\ polygon_call.y_start = polygon_call.y_end)

\* C26: the worker of the latest run sees the cancel event set only if
\* cancel_processing or on_closing set it after that run's start.
C26_NoStaleCancel == observedSet => setSinceStart

\* C29: every launched run puts exactly one PROCESSING_COMPLETE message, the
\* start button goes from disabled to normal only when a message is consumed
\* and stays disabled while a run is in progress, and at most one run is in
\* progress.
C29_OneMessagePerRun ==
    /\ [](\A k \in Runs :
            /\ putCount[k] <= 1
            /\ wpc[k] \in {"finishing", "exited"} => putCount[k] = 1
            /\ InProgress(k) => putCount[k] = 0 /\ start_button = "disabled")
    /\ [](Cardinality({k \in Runs : InProgress(k)}) <= 1)
    /\ [][(start_button = "disabled" /\ start_button' = "normal")
            => consumed' > consumed]_vars
    /\ \A k \in Runs : (wpc[k] # "none") ~> (putCount[k] = 1)

C29_Witness ==
    /\ putCount[1] = 1
    /\ putCount[2] = 1
    /\ wpc[2] = "exited"
    /\ consumed = 2
    /\ start_button = "normal"

====
